---- MODULE Spec2Model ----
(***************************************************************************)
(* A model of the frame-oriented GPU resource layer of include-engine      *)
(* (src/include-engine/renderer.cpp): the linear allocator dynamic_buffer, *)
(* the transient_resource_pool and its fence, the texture constructor's    *)
(* mip chain and upload commands, scene_material's per-object binding      *)
(* merge, the draw_list, the constructors that bind device memory and      *)
(* upload through the staging buffer, the free functions to_string and     *)
(* transition_layout, and select_physical_device; and of the transform     *)
(* functions of src/include-engine/transform.h.                            *)
(*                                                                         *)
(* Each component has its own specification (SpecBuffer, SpecPool,         *)
(* SpecTexture, SpecMaterial, SpecDraw, SpecCtor, SpecUtil, SpecSelect,    *)
(* SpecTransform); a specification moves only the variables of its         *)
(* component and leaves the others at their initial value.  The variable   *)
(* call records the operation the last step performed, with its arguments  *)
(* and its outcome.                                                        *)
(***************************************************************************)
EXTENDS Integers, Sequences, FiniteSets, TLC

VARIABLES
    call,             \* the last operation performed: [op |-> ..., ...]
    \* ---- dynamic_buffer (one linear allocator on its own)
    db,               \* [offset, range, alignment]: the object's fields
    regions,          \* history: the region end() last returned for each begin()
                      \* since the last reset
    epoch,            \* history: number of begin() calls since the last reset
    written,          \* history: bytes written since the last reset
    \* ---- transient_resource_pool and the GPU
    bufs,             \* uniform_buffer, vertex_buffer, index_buffer
    fence,            \* "signaled" or "unsignaled"
    command_buffers,  \* handles allocated since the last reset
    descriptor_sets,  \* handles allocated since the last reset
    gpu,              \* the submission the GPU is executing, or Idle
    live,             \* the device's view: handles allocated and not yet freed
    \* ---- texture
    tex,              \* the last texture constructed
    \* ---- scene_material
    material,         \* the last scene_material construction and its outcome
    \* ---- draw_list
    contract,         \* the contract the draw_list was built against
    items,            \* std::vector<draw_item>
    cmd,              \* the commands the last call recorded (draw() records none)
    terminated,       \* fail_fast() was called: the process is gone
    \* ---- construction of the objects that own device memory, and the queue
    job,              \* the constructor that is running or ran last, its position
                      \* and its outcome
    queue,            \* the transient command buffers submitted and not completed
    staging,          \* history: the number of memcpys into mapped_staging_memory
    started           \* history: the number of constructors started

bufVars  == <<db, regions, epoch, written>>
poolVars == <<bufs, fence, command_buffers, descriptor_sets, gpu, live>>
texVars  == <<tex>>
matVars  == <<material>>
drawVars == <<contract, items, cmd, terminated>>
ctorVars == <<job, queue, staging, started>>
vars     == <<call, bufVars, poolVars, texVars, matVars, drawVars, ctorVars>>

(***************************************************************************)
(* Bounds of the model.                                                    *)
(***************************************************************************)
\* The capacity of a dynamic_buffer.  The pool creates its three buffers with
\* 1024*1024 bytes (renderer.cpp:632-634); the model scales the size down.
Capacity == 4
\* A cap on offset + range, above Capacity: dynamic_buffer itself has none.
MaxExtent == 7
\* The largest size of one write.
MaxWrite == 2
\* The most begin() calls between two resets.
MaxBegins == 3

Max(a, b) == IF a >= b THEN a ELSE b

NoCall == [op |-> "none"]

(***************************************************************************)
(* dynamic_buffer                                                          *)
(***************************************************************************)
\* mem_reqs.alignment is what the device reports for the buffer.
Alignments == {1, 2, 4}

\* A reset that forgets to rewind offset.
BufferResetRangeOnly(b) == [b EXCEPT !.range = 0]

\* dynamic_buffer::reset
BufferReset(b) == [b EXCEPT !.offset = 0, !.range = 0]

\* A begin that starts the region at the aligned range instead of advancing.
BufferBeginNotAdvancing(b) ==
    [b EXCEPT !.offset = ((b.range + b.alignment - 1) \div b.alignment) * b.alignment,
              !.range = 0]

\* A begin that starts the next region where the last one ended, unrounded.
BufferBeginUnaligned(b) == [b EXCEPT !.offset = b.offset + b.range, !.range = 0]

\* dynamic_buffer::begin
BufferBegin(b) ==
    [b EXCEPT !.offset = b.offset + ((b.range + b.alignment - 1) \div b.alignment) * b.alignment,
              !.range = 0]

\* The destination of write's memcpy, as a byte offset into mapped_memory
WriteDestination(b) == b.offset + b.range

\* dynamic_buffer::write: the bytes go to [offset+range, offset+range+size)
BufferWrite(b, size) == [b EXCEPT !.range = b.range + size]

\* dynamic_buffer::end returns {buffer, offset, range}
BufferEnd(b) == [offset |-> b.offset, range |-> b.range]

\* dynamic_buffer::upload
BufferUpload(b, size) == BufferWrite(BufferBegin(b), size)

NewBuffer(a) == [offset |-> 0, range |-> 0, alignment |-> a]

BufInit(as) ==
    /\ db \in {NewBuffer(a) : a \in as}
    /\ regions = {}
    /\ epoch = 0
    /\ written = 0

DbReset ==
    /\ db' = BufferReset(db)
    /\ regions' = {}
    /\ epoch' = 0
    /\ written' = 0
    /\ call' = [op |-> "reset"]

DbBegin ==
    /\ epoch < MaxBegins
    /\ BufferBegin(db).offset <= MaxExtent
    /\ db' = BufferBegin(db)
    /\ epoch' = epoch + 1
    /\ call' = [op |-> "begin"]
    /\ UNCHANGED <<regions, written>>

DbWrite ==
    \E size \in 0..MaxWrite :
        /\ db.offset + db.range + size <= MaxExtent
        /\ db' = BufferWrite(db, size)
        /\ written' = written + size
        /\ call' = [op |-> "write", size |-> size, at |-> WriteDestination(db)]
        /\ UNCHANGED <<regions, epoch>>

DbEnd ==
    /\ regions' = {r \in regions : r.id # epoch}
                   \cup {[id |-> epoch, offset |-> BufferEnd(db).offset,
                          range |-> BufferEnd(db).range]}
    /\ call' = [op |-> "end"]
    /\ UNCHANGED <<db, epoch, written>>

DbUpload ==
    \E size \in 0..MaxWrite :
        /\ epoch < MaxBegins
        /\ BufferBegin(db).offset + size <= MaxExtent
        /\ db' = BufferUpload(db, size)
        /\ epoch' = epoch + 1
        /\ written' = written + size
        /\ regions' = regions \cup {[id |-> epoch + 1,
                                     offset |-> BufferEnd(BufferUpload(db, size)).offset,
                                     range |-> BufferEnd(BufferUpload(db, size)).range]}
        /\ call' = [op |-> "upload", size |-> size, at |-> WriteDestination(BufferBegin(db))]

NextBuffer ==
    /\ (DbReset \/ DbBegin \/ DbWrite \/ DbEnd \/ DbUpload)
    /\ UNCHANGED <<poolVars, texVars, matVars, drawVars, ctorVars>>

(***************************************************************************)
(* transient_resource_pool, window::end and the GPU                        *)
(***************************************************************************)
Kinds == {"uniform", "vertex", "index"}
PoolAlignments == {1, 2}
\* A cap on offset + range of the pool's three buffers.
PoolMaxExtent == 2
\* The largest size of one write into a buffer of the pool.
PoolMaxWrite == 1
\* The handles the device hands out, and the most of them a frame allocates.
CmdHandles == {"cb1", "cb2"}
SetHandles == {"ds1", "ds2"}
MaxCommandBuffers == 2
MaxDescriptorSets == 1
\* The most frames the model submits.
MaxFrames == 2

Range(s) == {s[i] : i \in DOMAIN s}

\* The GPU: whether it is executing a submission made with the pool's fence,
\* the command buffers of that submission, and (history) the number of
\* submissions made so far.
GpuIdle(frames) == [busy |-> FALSE, cmds |-> {}, frames |-> frames]

\* A reset that does not wait for the fence.
FenceNotWaitedFor(f) == TRUE

\* vkWaitForFences(..., UINT64_MAX) returns once the fence is signaled.
FenceWaitReturns(f) == f = "signaled"

\* vkQueueSubmit's valid usage: the fence is unsignaled and is not associated
\* with a queue command that has not completed.
FenceSubmittable(f, g) == f = "unsignaled" /\ ~g.busy

\* A reset that rewinds the allocators before it waits for the fence.
ResetStepsRewindFirst(cbs, dss) ==
    <<"uniform_buffer.reset", "vertex_buffer.reset", "index_buffer.reset",
      "vkWaitForFences", "vkResetFences">>
    \o (IF cbs # <<>> THEN <<"vkFreeCommandBuffers">> ELSE <<>>)
    \o <<"vkResetCommandPool">>
    \o (IF dss # <<>> THEN <<"vkFreeDescriptorSets">> ELSE <<>>)
    \o <<"vkResetDescriptorPool">>

\* The device calls of transient_resource_pool::reset, in program order.
ResetSteps(cbs, dss) ==
    <<"vkWaitForFences", "vkResetFences">>
    \o (IF cbs # <<>> THEN <<"vkFreeCommandBuffers">> ELSE <<>>)
    \o <<"vkResetCommandPool">>
    \o (IF dss # <<>> THEN <<"vkFreeDescriptorSets">> ELSE <<>>)
    \o <<"vkResetDescriptorPool", "uniform_buffer.reset", "vertex_buffer.reset",
         "index_buffer.reset">>

\* The constructor: three buffers at offset 0 (the model gives the three the same
\* alignment), empty handle lists, and a fence created with
\* VK_FENCE_CREATE_SIGNALED_BIT.
PoolInit(as) ==
    /\ bufs \in {[k \in Kinds |-> NewBuffer(a)] : a \in as}
    /\ fence = "signaled"
    /\ command_buffers = <<>>
    /\ descriptor_sets = <<>>
    /\ gpu = GpuIdle(0)
    /\ live = {}

\* An allocation that forgets to record the handle.
RecordHandleDropped(handles, h) == handles

\* command_buffers.push_back(command_buffer), descriptor_sets.push_back(descriptor_set)
RecordHandle(handles, h) == Append(handles, h)

\* transient_resource_pool::reset
PoolReset ==
    /\ FenceWaitReturns(fence)
    /\ fence' = "unsignaled"
    /\ command_buffers' = <<>>
    /\ descriptor_sets' = <<>>
    /\ bufs' = [k \in Kinds |-> BufferReset(bufs[k])]
    /\ call' = [op |-> "pool_reset", steps |-> ResetSteps(command_buffers, descriptor_sets),
                freed |-> Range(command_buffers) \cup Range(descriptor_sets),
                rewound |-> {k \in Kinds : bufs[k].offset + bufs[k].range > 0}]
    /\ live' = live \ (Range(command_buffers) \cup Range(descriptor_sets))
    /\ UNCHANGED gpu

\* transient_resource_pool::allocate_command_buffer
AllocateCommandBuffer ==
    /\ Len(command_buffers) < MaxCommandBuffers
    /\ \E h \in CmdHandles \ (live \cup gpu.cmds) :
        /\ command_buffers' = RecordHandle(command_buffers, h)
        /\ live' = live \cup {h}
        /\ call' = [op |-> "allocate_command_buffer", handle |-> h]
    /\ UNCHANGED <<bufs, fence, descriptor_sets, gpu>>

\* transient_resource_pool::allocate_descriptor_set
AllocateDescriptorSet ==
    /\ Len(descriptor_sets) < MaxDescriptorSets
    /\ \E h \in SetHandles \ live :
        /\ descriptor_sets' = RecordHandle(descriptor_sets, h)
        /\ live' = live \cup {h}
        /\ call' = [op |-> "allocate_descriptor_set", handle |-> h]
    /\ UNCHANGED <<bufs, fence, command_buffers, gpu>>

\* dynamic_buffer::begin on one of the pool's buffers
PoolBegin ==
    \E k \in Kinds :
        /\ BufferBegin(bufs[k]).offset <= PoolMaxExtent
        /\ bufs' = [bufs EXCEPT ![k] = BufferBegin(bufs[k])]
        /\ call' = [op |-> "pool_begin"]
        /\ UNCHANGED <<fence, command_buffers, descriptor_sets, gpu, live>>

\* dynamic_buffer::write on one of the pool's buffers
PoolWrite ==
    \E k \in Kinds, size \in 1..PoolMaxWrite :
        /\ bufs[k].offset + bufs[k].range + size <= PoolMaxExtent
        /\ bufs' = [bufs EXCEPT ![k] = BufferWrite(bufs[k], size)]
        /\ call' = [op |-> "pool_write"]
        /\ UNCHANGED <<fence, command_buffers, descriptor_sets, gpu, live>>

\* window::end(index, commands, fence) with the pool's command buffers and fence:
\* vkQueueSubmit hands the work to the GPU, which signals the fence when done.
WindowEnd ==
    /\ gpu.frames < MaxFrames
    /\ FenceSubmittable(fence, gpu)
    /\ gpu' = [busy |-> TRUE, cmds |-> Range(command_buffers), frames |-> gpu.frames + 1]
    /\ call' = [op |-> "window_end"]
    /\ UNCHANGED <<bufs, fence, command_buffers, descriptor_sets, live>>

\* The GPU finishes the submission and signals its fence.
GpuFinish ==
    /\ gpu.busy
    /\ gpu' = GpuIdle(gpu.frames)
    /\ fence' = "signaled"
    /\ call' = [op |-> "gpu_finish"]
    /\ UNCHANGED <<bufs, command_buffers, descriptor_sets, live>>

NextPool ==
    /\ (PoolReset \/ AllocateCommandBuffer \/ AllocateDescriptorSet \/ PoolBegin
        \/ PoolWrite \/ WindowEnd \/ GpuFinish)
    /\ UNCHANGED <<bufVars, texVars, matVars, drawVars, ctorVars>>

(***************************************************************************)
(* texture::texture: the mip chain the constructor asks the device for     *)
(***************************************************************************)
\* The extents the model constructs textures with: 1..MaxDim and three sizes
\* of the kind applications load.
MaxDim == 9
\* The most array layers of a texture.
MaxLayers == 2
Dims == (1..MaxDim) \cup {200, 256, 300}
Depths == {1, 2}

\* std::ceil(std::log2(n)) for n >= 1: the least k with 2^k >= n
RECURSIVE CeilLog2(_)
CeilLog2(n) == IF n <= 1 THEN 0 ELSE 1 + CeilLog2((n + 1) \div 2)

\* image_info.mipLevels
MipLevels(extent) ==
    1 + CeilLog2(Max(extent.width, Max(extent.height, extent.depth)))

\* VkImageLayout: the layouts transition_layout knows as an old layout, those
\* it knows as a new layout, and two it knows as neither
OldLayouts ==
    {"UNDEFINED", "PREINITIALIZED", "TRANSFER_SRC_OPTIMAL", "TRANSFER_DST_OPTIMAL",
     "COLOR_ATTACHMENT_OPTIMAL", "SHADER_READ_ONLY_OPTIMAL"}
NewLayouts ==
    {"TRANSFER_SRC_OPTIMAL", "TRANSFER_DST_OPTIMAL", "COLOR_ATTACHMENT_OPTIMAL",
     "SHADER_READ_ONLY_OPTIMAL", "PRESENT_SRC_KHR"}
ImageLayouts ==
    OldLayouts \cup NewLayouts \cup {"GENERAL", "DEPTH_STENCIL_ATTACHMENT_OPTIMAL"}

\* A command buffer being recorded: the commands so far, and whether the
\* recording function has thrown
Recording(commands) == [threw |-> FALSE, commands |-> commands]

\* transition_layout that records the barrier whatever the layouts are.
transition_layout_any(r, mip_level, array_layer, old_layout, new_layout) ==
    IF r.threw THEN r
    ELSE [r EXCEPT !.commands = Append(@,
            [cmd |-> "vkCmdPipelineBarrier", mip_level |-> mip_level,
             array_layer |-> array_layer, oldLayout |-> old_layout,
             newLayout |-> new_layout])]

\* transition_layout(command_buffer, image, mip_level, array_layer, old_layout,
\* new_layout): both switches come before vkCmdPipelineBarrier
transition_layout(r, mip_level, array_layer, old_layout, new_layout) ==
    IF r.threw THEN r
    ELSE IF old_layout \notin OldLayouts THEN [r EXCEPT !.threw = TRUE]
    ELSE IF new_layout \notin NewLayouts THEN [r EXCEPT !.threw = TRUE]
    ELSE [r EXCEPT !.commands = Append(@,
            [cmd |-> "vkCmdPipelineBarrier", mip_level |-> mip_level,
             array_layer |-> array_layer, oldLayout |-> old_layout,
             newLayout |-> new_layout])]

\* vkCmdCopyBufferToImage, vkCmdBlitImage
Record(r, c) == IF r.threw THEN r ELSE [r EXCEPT !.commands = Append(@, c)]

\* One turn of the mip loop that makes level i-1 shader-readable before the
\* blit that reads it.
MipStepReadableEarly(r, i, layer) ==
    LET a == transition_layout(r, i - 1, layer, "TRANSFER_DST_OPTIMAL", "SHADER_READ_ONLY_OPTIMAL")
        b == transition_layout(a, i, layer, "UNDEFINED", "TRANSFER_DST_OPTIMAL")
    IN  Record(b, [cmd |-> "vkCmdBlitImage", array_layer |-> layer,
                   src |-> i - 1, srcLayout |-> "TRANSFER_SRC_OPTIMAL",
                   dst |-> i, dstLayout |-> "TRANSFER_DST_OPTIMAL"])

\* One turn of the loop over the mip levels 1..mipLevels-1
MipStep(r, i, layer) ==
    LET a == transition_layout(r, i - 1, layer, "TRANSFER_DST_OPTIMAL", "TRANSFER_SRC_OPTIMAL")
        b == transition_layout(a, i, layer, "UNDEFINED", "TRANSFER_DST_OPTIMAL")
        c == Record(b, [cmd |-> "vkCmdBlitImage", array_layer |-> layer,
                        src |-> i - 1, srcLayout |-> "TRANSFER_SRC_OPTIMAL",
                        dst |-> i, dstLayout |-> "TRANSFER_DST_OPTIMAL"])
    IN  transition_layout(c, i - 1, layer, "TRANSFER_SRC_OPTIMAL", "SHADER_READ_ONLY_OPTIMAL")

RECURSIVE MipSteps(_, _, _, _)
MipSteps(r, i, mipLevels, layer) ==
    IF i >= mipLevels THEN r
    ELSE MipSteps(MipStep(r, i, layer), i + 1, mipLevels, layer)

\* The commands recorded between begin_transient and end_transient for one
\* array layer
LayerCommands(mipLevels, layer) ==
    LET a == transition_layout(Recording(<<>>), 0, layer, "UNDEFINED", "TRANSFER_DST_OPTIMAL")
        b == Record(a, [cmd |-> "vkCmdCopyBufferToImage", array_layer |-> layer,
                        dst |-> 0, dstLayout |-> "TRANSFER_DST_OPTIMAL"])
        c == MipSteps(b, 1, mipLevels, layer)
    IN  transition_layout(c, mipLevels - 1, layer, "TRANSFER_DST_OPTIMAL",
                          "SHADER_READ_ONLY_OPTIMAL")

NoTexture == [constructed |-> FALSE]

TexInit == tex = NoTexture

\* texture::texture(ctx, format, extent, layer_data, view_type); batches[l] is
\* the command buffer submitted for array layer l-1
TextureCtor ==
    /\ ~tex.constructed
    /\ \E w \in Dims, h \in Dims, d \in Depths, n \in 1..MaxLayers :
        LET extent == [width |-> w, height |-> h, depth |-> d] IN
        /\ tex' = [constructed |-> TRUE, extent |-> extent,
                   mipLevels |-> MipLevels(extent), layers |-> n,
                   batches |-> [l \in 1..n |-> LayerCommands(MipLevels(extent), l - 1)]]
        /\ call' = [op |-> "texture"]

NextTexture ==
    /\ TextureCtor
    /\ UNCHANGED <<bufVars, poolVars, matVars, drawVars, ctorVars>>

(***************************************************************************)
(* scene_contract: the render passes and the shared layouts of a scene     *)
(***************************************************************************)
Contracts == {"c1", "c2"}

\* scene_contract::shared_layouts: one layout handle per shared descriptor set
SharedLayouts(c) == IF c = "c1" THEN <<"L1", "L2">> ELSE <<>>

\* scene_contract::render_passes, each with its number of color attachments
RenderPasses(c) ==
    IF c = "c1"
    THEN <<[id |-> "shadow", color_attachment_count |-> 0],
           [id |-> "main", color_attachment_count |-> 1]>>
    ELSE <<[id |-> "main", color_attachment_count |-> 1]>>

(***************************************************************************)
(* scene_material: the per-object layout merged from the shader stages     *)
(***************************************************************************)
\* shader_info::type: sampler, numeric, structure, or an array of a type
Sampler == [kind |-> "sampler"]
Numeric == [kind |-> "numeric"]
ArrayOf(t, n) == [kind |-> "array", element |-> t, length |-> n]

\* descriptorCount is a uint32_t; the array lengths of the model keep the
\* product far below 2^32, so the multiplication never wraps here.
RECURSIVE get_descriptor_set_layout_binding(_, _, _)
get_descriptor_set_layout_binding(binding, type, stage_flags) ==
    IF type.kind = "array"
    THEN LET b == get_descriptor_set_layout_binding(binding, type.element, stage_flags)
         IN  [b EXCEPT !.descriptorCount = b.descriptorCount * type.length]
    ELSE IF type.kind = "sampler"
    THEN [binding |-> binding, descriptorType |-> "COMBINED_IMAGE_SAMPLER",
          descriptorCount |-> 1, stageFlags |-> stage_flags]
    ELSE [binding |-> binding, descriptorType |-> "UNIFORM_BUFFER",
          descriptorCount |-> 1, stageFlags |-> stage_flags]

\* The position of the first entry of per_object_bindings with this binding
\* number, or 0.
FindBinding(bindings, binding) ==
    LET hits == {i \in DOMAIN bindings : bindings[i].binding = binding}
    IN  IF hits = {} THEN 0 ELSE CHOOSE i \in hits : \A j \in hits : i <= j

\* A merge that keeps the first declaration's stage flags.
MergeDescriptorFirstStageOnly(acc, k, stage, descriptor) ==
    IF acc.error # "none" THEN acc
    ELSE IF descriptor.set # k THEN acc
    ELSE LET d  == get_descriptor_set_layout_binding(descriptor.binding, descriptor.type, {stage})
             i  == FindBinding(acc.bindings, d.binding)
         IN  IF i = 0 THEN [acc EXCEPT !.bindings = Append(acc.bindings, d)]
             ELSE IF acc.bindings[i].descriptorType # d.descriptorType
             THEN [acc EXCEPT !.error = "descriptor type mismatch"]
             ELSE IF acc.bindings[i].descriptorCount # d.descriptorCount
             THEN [acc EXCEPT !.error = "descriptor count mismatch"]
             ELSE acc

\* A merge that compares the descriptor types only.
MergeDescriptorTypeOnly(acc, k, stage, descriptor) ==
    IF acc.error # "none" THEN acc
    ELSE IF descriptor.set # k THEN acc
    ELSE LET d  == get_descriptor_set_layout_binding(descriptor.binding, descriptor.type, {stage})
             i  == FindBinding(acc.bindings, d.binding)
         IN  IF i = 0 THEN [acc EXCEPT !.bindings = Append(acc.bindings, d)]
             ELSE IF acc.bindings[i].descriptorType # d.descriptorType
             THEN [acc EXCEPT !.error = "descriptor type mismatch"]
             ELSE [acc EXCEPT !.bindings[i].stageFlags =
                                  acc.bindings[i].stageFlags \cup d.stageFlags]

\* A merge that takes the descriptors of every set.
MergeDescriptorAnySet(acc, k, stage, descriptor) ==
    IF acc.error # "none" THEN acc
    ELSE LET d  == get_descriptor_set_layout_binding(descriptor.binding, descriptor.type, {stage})
             i  == FindBinding(acc.bindings, d.binding)
         IN  IF i = 0 THEN [acc EXCEPT !.bindings = Append(acc.bindings, d)]
             ELSE IF acc.bindings[i].descriptorType # d.descriptorType
             THEN [acc EXCEPT !.error = "descriptor type mismatch"]
             ELSE IF acc.bindings[i].descriptorCount # d.descriptorCount
             THEN [acc EXCEPT !.error = "descriptor count mismatch"]
             ELSE [acc EXCEPT !.bindings[i].stageFlags =
                                  acc.bindings[i].stageFlags \cup d.stageFlags]

\* The body of the loop over one stage's descriptors (renderer.cpp:1042-1055):
\* acc is per_object_bindings and the exception thrown so far, if any.
MergeDescriptor(acc, k, stage, descriptor) ==
    IF acc.error # "none" THEN acc
    ELSE IF descriptor.set # k THEN acc
    ELSE LET d  == get_descriptor_set_layout_binding(descriptor.binding, descriptor.type, {stage})
             i  == FindBinding(acc.bindings, d.binding)
         IN  IF i = 0 THEN [acc EXCEPT !.bindings = Append(acc.bindings, d)]
             ELSE IF acc.bindings[i].descriptorType # d.descriptorType
             THEN [acc EXCEPT !.error = "descriptor type mismatch"]
             ELSE IF acc.bindings[i].descriptorCount # d.descriptorCount
             THEN [acc EXCEPT !.error = "descriptor count mismatch"]
             ELSE [acc EXCEPT !.bindings[i].stageFlags =
                                  acc.bindings[i].stageFlags \cup d.stageFlags]

RECURSIVE MergeDescriptors(_, _, _, _)
MergeDescriptors(acc, k, stage, descriptors) ==
    IF descriptors = <<>> THEN acc
    ELSE MergeDescriptors(MergeDescriptor(acc, k, stage, Head(descriptors)),
                          k, stage, Tail(descriptors))

\* The loop over the stages (renderer.cpp:1036-1057)
RECURSIVE MergeStages(_, _, _)
MergeStages(acc, k, stages) ==
    IF stages = <<>> THEN acc
    ELSE MergeStages(MergeDescriptors(acc, k, Head(stages).stage, Head(stages).descriptors),
                     k, Tail(stages))

\* shader_stages and shader_stages_no_frag
ShaderStages(stages) == [i \in DOMAIN stages |-> stages[i].stage]
IsNotFragment(st) == st # "FRAGMENT"
ShaderStagesNoFrag(stages) == SelectSeq(ShaderStages(stages), IsNotFragment)

\* Pipelines that are all built from shader_stages.
MakePipelinesAllStages(c, stages) ==
    [i \in DOMAIN RenderPasses(c) |->
        [pass |-> RenderPasses(c)[i].id, stages |-> ShaderStages(stages)]]

\* The pipelines of the loop over contract->render_passes
MakePipelines(c, stages) ==
    [i \in DOMAIN RenderPasses(c) |->
        [pass |-> RenderPasses(c)[i].id,
         stages |-> IF RenderPasses(c)[i].color_attachment_count > 0
                    THEN ShaderStages(stages) ELSE ShaderStagesNoFrag(stages)]]

NotCreated == [created |-> FALSE, bindings |-> <<>>]

\* scene_material::scene_material
SceneMaterial(c, stages) ==
    LET k      == Len(SharedLayouts(c))
        merged == MergeStages([bindings |-> <<>>, error |-> "none"], k, stages)
    IN  IF merged.error # "none"
        THEN [constructed |-> TRUE, contract |-> c, stages |-> stages, error |-> merged.error,
              per_object_layout |-> NotCreated,
              pipeline_layout |-> [created |-> FALSE, set_layouts |-> <<>>],
              pipelines |-> <<>>]
        ELSE [constructed |-> TRUE, contract |-> c, stages |-> stages, error |-> "none",
              per_object_layout |-> [created |-> TRUE, bindings |-> merged.bindings],
              pipeline_layout |-> [created |-> TRUE,
                                   set_layouts |-> Append(SharedLayouts(c), "per_object_layout")],
              pipelines |-> MakePipelines(c, stages)]

\* The shaders given to the constructor: at most MaxStages of them, each a
\* vertex or a fragment shader with at most two descriptors out of Descriptors.
MaxStages == 2
Descriptors ==
    {[set |-> s, binding |-> 3, type |-> t] : s \in {0, 2}, t \in {Sampler, Numeric}}
    \cup {[set |-> 2, binding |-> 3, type |-> ArrayOf(Numeric, 2)],
          [set |-> 2, binding |-> 0, type |-> Sampler]}
SeqsUpTo(S, n) == UNION {[1..m -> S] : m \in 0..n}
Shaders == {[stage |-> st, descriptors |-> ds] :
                st \in {"VERTEX", "FRAGMENT"}, ds \in SeqsUpTo(Descriptors, 2)}

NoMaterial == [constructed |-> FALSE]

MatInit == material = NoMaterial

SceneMaterialCtor ==
    /\ ~material.constructed
    /\ \E c \in Contracts, stages \in SeqsUpTo(Shaders, MaxStages) :
        /\ material' = SceneMaterial(c, stages)
        /\ call' = [op |-> "scene_material"]

NextMaterial ==
    /\ SceneMaterialCtor
    /\ UNCHANGED <<bufVars, poolVars, texVars, drawVars, ctorVars>>

(***************************************************************************)
(* draw_list                                                               *)
(***************************************************************************)
\* The most items the list holds, and the longest array of shared descriptor
\* sets and of vertex buffers a caller passes.
MaxItems == 3
MaxShared == 2
MaxVertexBuffers == 5

\* The materials of the scene and the contract each was built against
\* (scene_material::contract).
Materials == {"m1", "m2"}
MaterialContract(m) == IF m = "m1" THEN "c1" ELSE "c2"

\* scene_descriptor_set(pool, material): a set with the material's per-object
\* layout.  draw() takes such a set: get_material() dereferences its material.
PerObjectLayout(m) == IF m = "m1" THEN "PO1" ELSE "PO2"
MaterialSet(m) == [material |-> m, layout |-> PerObjectLayout(m),
                   set |-> IF m = "m1" THEN "set_m1" ELSE "set_m2"]
\* scene_descriptor_set(pool, layout): a set with a shared layout, no material.
SharedSet(l) == [material |-> "none", layout |-> l,
                 set |-> IF l = "L1" THEN "set_L1" ELSE "set_L2"]
SharedSets == {SharedSet(l) : l \in {"L1", "L2"}}

NullHandle == "VK_NULL_HANDLE"

\* The vertex buffers of an explicit draw: the first n of a row of bindings.
VertexBufferNames == <<"vb1", "vb2", "vb3", "vb4", "vb5", "vb6", "vb7", "vb8">>
VertexBufferInfo(i) == [buffer |-> VertexBufferNames[i], offset |-> 4 * i]
VertexBufferLists ==
    {[i \in 1..n |-> VertexBufferInfo(i)] : n \in {2, 4, MaxVertexBuffers}}
IndexBufferInfo == [buffer |-> "ib", offset |-> 12]

\* gfx_mesh: one vertex buffer, one index buffer, and the triangle range of
\* each material (mesh::material), indexed from 0 in the source.
Mesh == [vertex_buffer |-> "mesh_vb", index_buffer |-> "mesh_ib",
         materials |-> <<[first_triangle |-> 0, num_triangles |-> 10],
                         [first_triangle |-> 10, num_triangles |-> 30],
                         [first_triangle |-> 40, num_triangles |-> 5]>>]
MeshMaterial(mesh, mtl) == mesh.materials[mtl + 1]
AllMaterials(mesh) == [i \in 1..Len(mesh.materials) |-> i - 1]

\* The instance buffer and stride of a mesh draw: the buffer is none ({}) or a
\* buffer of 10 bytes, the stride is 0 or 4; the caller is free to pass any pair.
NoInstances == [buffer |-> NullHandle, offset |-> 0, range |-> 0]
InstanceArgs == {[instances |-> i, instance_stride |-> st] :
                    i \in {NoInstances, [buffer |-> "inst", offset |-> 8, range |-> 10]},
                    st \in {0, 4}}

\* A draw() without the contract check.
SameContractUnchecked(descriptors, c) == TRUE

\* The check both draw() bodies start with: the set's material belongs to the
\* list's contract.
SameContract(descriptors, c) == MaterialContract(descriptors.material) = c

\* draw_item item {&descriptors.get_material(), descriptors.get_descriptor_set()}:
\* the other members are value-initialized.
NewItem(descriptors) ==
    [material |-> descriptors.material, set |-> descriptors.set,
     vertex_buffer_count |-> 0,
     vertex_buffers |-> [i \in 1..4 |-> NullHandle],
     vertex_buffer_offsets |-> [i \in 1..4 |-> 0],
     index_buffer |-> NullHandle, index_buffer_offset |-> 0,
     first_index |-> 0, index_count |-> 0, instance_count |-> 0]

\* The item of draw(descriptors, vertex_buffers, index_buffer, index_count,
\* instance_count)
ExplicitItem(descriptors, vertex_buffers, index_buffer, index_count, instance_count) ==
    [NewItem(descriptors) EXCEPT
        !.vertex_buffer_count = Len(vertex_buffers),
        !.vertex_buffers = [i \in 1..4 |-> IF i <= Len(vertex_buffers)
                                           THEN vertex_buffers[i].buffer ELSE NullHandle],
        !.vertex_buffer_offsets = [i \in 1..4 |-> IF i <= Len(vertex_buffers)
                                                  THEN vertex_buffers[i].offset ELSE 0],
        !.index_buffer = index_buffer.buffer,
        !.index_buffer_offset = index_buffer.offset,
        !.first_index = 0,
        !.index_count = index_count,
        !.instance_count = instance_count]

\* A mesh item that takes the triangle range as an index range.
MeshItemInTriangles(descriptors, mesh, mtl, instances, instance_stride) ==
    [NewItem(descriptors) EXCEPT
        !.vertex_buffer_count = IF instance_stride # 0 THEN 2 ELSE 1,
        !.vertex_buffers = [i \in 1..4 |-> IF i = 1 THEN mesh.vertex_buffer
                                           ELSE IF i = 2 THEN instances.buffer
                                           ELSE NullHandle],
        !.vertex_buffer_offsets = [i \in 1..4 |-> IF i = 2 THEN instances.offset ELSE 0],
        !.index_buffer = mesh.index_buffer,
        !.index_buffer_offset = 0,
        !.instance_count = IF instance_stride # 0
                           THEN instances.range \div instance_stride ELSE 1,
        !.first_index = MeshMaterial(mesh, mtl).first_triangle,
        !.index_count = MeshMaterial(mesh, mtl).num_triangles]

\* A mesh item that counts one instance of instance_stride bytes too many.
MeshItemRoundingUp(descriptors, mesh, mtl, instances, instance_stride) ==
    [NewItem(descriptors) EXCEPT
        !.vertex_buffer_count = IF instance_stride # 0 THEN 2 ELSE 1,
        !.vertex_buffers = [i \in 1..4 |-> IF i = 1 THEN mesh.vertex_buffer
                                           ELSE IF i = 2 THEN instances.buffer
                                           ELSE NullHandle],
        !.vertex_buffer_offsets = [i \in 1..4 |-> IF i = 2 THEN instances.offset ELSE 0],
        !.index_buffer = mesh.index_buffer,
        !.index_buffer_offset = 0,
        !.instance_count = IF instance_stride # 0
                           THEN (instances.range + instance_stride - 1) \div instance_stride
                           ELSE 1,
        !.first_index = MeshMaterial(mesh, mtl).first_triangle * 3,
        !.index_count = MeshMaterial(mesh, mtl).num_triangles * 3]

\* The item of draw(descriptors, mesh, mtls, instances, instance_stride) for one
\* material index of mtls
MeshItem(descriptors, mesh, mtl, instances, instance_stride) ==
    [NewItem(descriptors) EXCEPT
        !.vertex_buffer_count = IF instance_stride # 0 THEN 2 ELSE 1,
        !.vertex_buffers = [i \in 1..4 |-> IF i = 1 THEN mesh.vertex_buffer
                                           ELSE IF i = 2 THEN instances.buffer
                                           ELSE NullHandle],
        !.vertex_buffer_offsets = [i \in 1..4 |-> IF i = 2 THEN instances.offset ELSE 0],
        !.index_buffer = mesh.index_buffer,
        !.index_buffer_offset = 0,
        !.instance_count = IF instance_stride # 0
                           THEN instances.range \div instance_stride ELSE 1,
        !.first_index = MeshMaterial(mesh, mtl).first_triangle * 3,
        !.index_count = MeshMaterial(mesh, mtl).num_triangles * 3]

\* The items the loop over mtls pushes, in order
MeshItems(descriptors, mesh, mtls, instances, instance_stride) ==
    [j \in DOMAIN mtls |-> MeshItem(descriptors, mesh, mtls[j], instances, instance_stride)]


\* draw(descriptors, vertex_buffers, index_buffer, index_count, instance_count)
DrawExplicit ==
    /\ ~terminated
    /\ Len(items) < MaxItems
    /\ \E m \in Materials, vertex_buffers \in VertexBufferLists :
        LET descriptors == MaterialSet(m) IN
        /\ IF ~SameContract(descriptors, contract)
           THEN /\ terminated' = TRUE
                /\ items' = items
           ELSE /\ terminated' = FALSE
                /\ items' = Append(items, ExplicitItem(descriptors, vertex_buffers,
                                                       IndexBufferInfo, 6, 2))
        /\ call' = [op |-> "draw", overload |-> "explicit", material |-> m,
                    vertex_buffers |-> vertex_buffers, mtls |-> <<>>,
                    instances |-> NoInstances, instance_stride |-> 0]
        /\ cmd' = <<>>
        /\ UNCHANGED contract

\* The body shared by the four mesh overloads, which all end in
\* draw(descriptors, mesh, mtls, instances, instance_stride)
DrawMeshBody(overload, m, mtls, args) ==
    LET descriptors == MaterialSet(m) IN
    /\ Len(items) + Len(mtls) <= MaxItems
    /\ IF ~SameContract(descriptors, contract)
       THEN /\ terminated' = TRUE
            /\ items' = items
       ELSE /\ terminated' = FALSE
            /\ items' = items \o MeshItems(descriptors, Mesh, mtls, args.instances,
                                           args.instance_stride)
    /\ call' = [op |-> "draw", overload |-> overload, material |-> m,
                vertex_buffers |-> <<>>, mtls |-> mtls,
                instances |-> args.instances, instance_stride |-> args.instance_stride]
    /\ cmd' = <<>>
    /\ UNCHANGED contract

\* draw(descriptors, mesh, mtls, instances, instance_stride); the model passes
\* material subsets of two indices through draw(descriptors, mesh, mtls).
DrawMesh ==
    /\ ~terminated
    /\ \E m \in Materials, mtls \in SeqsUpTo(0..2, 1), args \in InstanceArgs :
        DrawMeshBody("mesh_mtls_instances", m, mtls, args)

\* draw(descriptors, mesh, instances, instance_stride): every material
DrawMeshAllInstanced ==
    /\ ~terminated
    /\ \E m \in Materials, args \in InstanceArgs :
        DrawMeshBody("mesh_instances", m, AllMaterials(Mesh), args)

\* draw(descriptors, mesh, mtls): no instance buffer
DrawMeshSubset ==
    /\ ~terminated
    /\ \E m \in Materials, mtls \in SeqsUpTo(0..2, 2) :
        DrawMeshBody("mesh_mtls", m, mtls,
                     [instances |-> NoInstances, instance_stride |-> 0])

\* draw(descriptors, mesh): every material, no instance buffer
DrawMeshAll ==
    /\ ~terminated
    /\ \E m \in Materials :
        DrawMeshBody("mesh", m, AllMaterials(Mesh),
                     [instances |-> NoInstances, instance_stride |-> 0])

\* A validation loop that stops one short of the last shared set.
FirstMismatchButLast(shared_descriptors, contract_layouts) ==
    LET bad == {i \in DOMAIN shared_descriptors :
                    /\ i < Len(shared_descriptors)
                    /\ shared_descriptors[i].layout # contract_layouts[i]}
    IN  IF bad = {} THEN 0 ELSE CHOOSE i \in bad : \A j \in bad : i <= j

\* The loop that validates the shared sets against the contract's layouts: the
\* first index (from 1) whose layout differs, or 0.
FirstMismatch(shared_descriptors, contract_layouts) ==
    LET bad == {i \in DOMAIN shared_descriptors :
                    shared_descriptors[i].layout # contract_layouts[i]}
    IN  IF bad = {} THEN 0 ELSE CHOOSE i \in bad : \A j \in bad : i <= j

\* A bind of the shared sets from the last to the first.
BindSharedReversed(c, shared_descriptors) ==
    [cmd |-> "vkCmdBindDescriptorSets", layout |-> [owner |-> "contract", id |-> c],
     first_set |-> 0,
     sets |-> [i \in DOMAIN shared_descriptors |->
                  shared_descriptors[Len(shared_descriptors) + 1 - i].set]]

\* vkCmdBindDescriptorSets of the shared sets, at set index 0
BindShared(c, shared_descriptors) ==
    [cmd |-> "vkCmdBindDescriptorSets", layout |-> [owner |-> "contract", id |-> c],
     first_set |-> 0,
     sets |-> [i \in DOMAIN shared_descriptors |-> shared_descriptors[i].set]]

\* Item commands that bind the per-object set at set index 0.
ItemCommandsAtSetZero(item, render_pass_index, shared_count) ==
    <<[cmd |-> "vkCmdBindPipeline",
       pipeline |-> [material |-> item.material, pass |-> render_pass_index]],
      [cmd |-> "vkCmdBindDescriptorSets",
       layout |-> [owner |-> "material", id |-> item.material],
       first_set |-> 0, sets |-> <<item.set>>],
      [cmd |-> "vkCmdBindVertexBuffers", first_binding |-> 0,
       binding_count |-> item.vertex_buffer_count,
       buffers |-> item.vertex_buffers, offsets |-> item.vertex_buffer_offsets],
      [cmd |-> "vkCmdBindIndexBuffer", buffer |-> item.index_buffer,
       offset |-> item.index_buffer_offset],
      [cmd |-> "vkCmdDrawIndexed", index_count |-> item.index_count,
       instance_count |-> item.instance_count, first_index |-> item.first_index,
       vertex_offset |-> 0, first_instance |-> 0]>>

\* The five commands of one item (renderer.cpp:1174-1178)
ItemCommands(item, render_pass_index, shared_count) ==
    <<[cmd |-> "vkCmdBindPipeline",
       pipeline |-> [material |-> item.material, pass |-> render_pass_index]],
      [cmd |-> "vkCmdBindDescriptorSets",
       layout |-> [owner |-> "material", id |-> item.material],
       first_set |-> shared_count, sets |-> <<item.set>>],
      [cmd |-> "vkCmdBindVertexBuffers", first_binding |-> 0,
       binding_count |-> item.vertex_buffer_count,
       buffers |-> item.vertex_buffers, offsets |-> item.vertex_buffer_offsets],
      [cmd |-> "vkCmdBindIndexBuffer", buffer |-> item.index_buffer,
       offset |-> item.index_buffer_offset],
      [cmd |-> "vkCmdDrawIndexed", index_count |-> item.index_count,
       instance_count |-> item.instance_count, first_index |-> item.first_index,
       vertex_offset |-> 0, first_instance |-> 0]>>

\* A loop over the items from the last to the first.
RECURSIVE DrawCallsBackToFront(_, _, _)
DrawCallsBackToFront(its, render_pass_index, shared_count) ==
    IF its = <<>> THEN <<>>
    ELSE DrawCallsBackToFront(Tail(its), render_pass_index, shared_count)
         \o ItemCommands(Head(its), render_pass_index, shared_count)

\* The loop over items (renderer.cpp:1172-1179)
RECURSIVE DrawCalls(_, _, _)
DrawCalls(its, render_pass_index, shared_count) ==
    IF its = <<>> THEN <<>>
    ELSE ItemCommands(Head(its), render_pass_index, shared_count)
         \o DrawCalls(Tail(its), render_pass_index, shared_count)

\* draw_list::write_commands: the exception it throws, if any, and the commands
\* it has recorded into cmd when it returns or throws.
WriteCommandsResult(c, its, render_pass_index, shared_descriptors) ==
    LET contract_layouts == SharedLayouts(c) IN
    IF Len(shared_descriptors) # Len(contract_layouts)
    THEN [error |-> "contract violation", commands |-> <<>>]
    ELSE IF FirstMismatch(shared_descriptors, contract_layouts) # 0
    THEN [error |-> "contract violation", commands |-> <<>>]
    ELSE [error |-> "none",
          commands |-> (IF Len(shared_descriptors) > 0
                        THEN <<BindShared(c, shared_descriptors)>> ELSE <<>>)
                       \o DrawCalls(its, render_pass_index, Len(shared_descriptors))]

\* A write_commands that takes the items out of the list as it draws them.
ItemsDrained(its) == <<>>

\* write_commands is a const member function: it reads items and assigns to no
\* member.
ItemsAfterWriteCommands(its) == its

\* write_commands(cmd, render_pass, shared_descriptors) on a command buffer the
\* caller has just begun; render_pass is one of the contract's passes.  The
\* call record notes (history) whether the call before was a write_commands
\* with the same arguments.
WriteCommands ==
    /\ ~terminated
    /\ \E render_pass_index \in DOMAIN RenderPasses(contract),
          shared_descriptors \in SeqsUpTo(SharedSets, MaxShared) :
        LET r == WriteCommandsResult(contract, items, render_pass_index, shared_descriptors) IN
        /\ cmd' = r.commands
        /\ call' = [op |-> "write_commands", error |-> r.error,
                    render_pass_index |-> render_pass_index,
                    shared_descriptors |-> shared_descriptors,
                    replay |-> /\ call.op = "write_commands"
                               /\ call.render_pass_index = render_pass_index
                               /\ call.shared_descriptors = shared_descriptors]
        /\ items' = ItemsAfterWriteCommands(items)
        /\ UNCHANGED <<contract, terminated>>

NextDraw ==
    /\ (DrawExplicit \/ DrawMesh \/ DrawMeshAllInstanced \/ DrawMeshSubset \/ DrawMeshAll
        \/ WriteCommands)
    /\ UNCHANGED <<bufVars, poolVars, texVars, matVars, ctorVars>>

(***************************************************************************)
(* The constructors that create device objects and bind memory to them,    *)
(* and the uploads through the staging buffer                              *)
(***************************************************************************)
\* The most constructors a run starts after context's.
MaxConstructions == 2

\* The results a device call returns in the model.
Success == "VK_SUCCESS"
Results == {Success, "VK_ERROR_OUT_OF_HOST_MEMORY", "VK_ERROR_OUT_OF_DEVICE_MEMORY"}

\* The steps of a constructor: a device call whose result goes through
\* check(), a device call whose result is dropped, or a memcpy of the host.
Checked(name) == [call |-> name, kind |-> "checked"]
Unchecked(name) == [call |-> name, kind |-> "unchecked"]
HostCopy == [call |-> "memcpy", kind |-> "host"]

\* context::allocate
Allocate == <<Checked("vkAllocateMemory")>>
\* context::begin_transient
BeginTransient == <<Checked("vkAllocateCommandBuffers"), Checked("vkBeginCommandBuffer")>>
\* context::end_transient
EndTransient ==
    <<Checked("vkEndCommandBuffer"), Checked("vkQueueSubmit"), Checked("vkQueueWaitIdle")>>

\* context::context, from "Set up staging buffer" on
ContextSteps ==
    <<Checked("vkCreateBuffer")>> \o Allocate
    \o <<Unchecked("vkBindBufferMemory"), Checked("vkMapMemory"),
         Checked("vkCreateCommandPool")>>
\* render_target::render_target
RenderTargetSteps ==
    <<Checked("vkCreateImage")>> \o Allocate
    \o <<Unchecked("vkBindImageMemory"), Checked("vkCreateImageView")>>
\* static_buffer::static_buffer
StaticBufferSteps ==
    <<HostCopy, Checked("vkCreateBuffer")>> \o Allocate
    \o <<Unchecked("vkBindBufferMemory")>> \o BeginTransient \o EndTransient
\* dynamic_buffer::dynamic_buffer
DynamicBufferSteps ==
    <<Checked("vkCreateBuffer")>> \o Allocate
    \o <<Unchecked("vkBindBufferMemory"), Checked("vkMapMemory")>>
\* One round of texture::texture's loop over layer_data
LayerSteps == <<HostCopy>> \o BeginTransient \o EndTransient
RECURSIVE Layers(_)
Layers(n) == IF n = 0 THEN <<>> ELSE LayerSteps \o Layers(n - 1)
\* texture::texture
TextureSteps(layers) ==
    <<Checked("vkCreateImage")>> \o Allocate \o <<Unchecked("vkBindImageMemory")>>
    \o Layers(layers) \o <<Checked("vkCreateImageView")>>

\* The constructors a run starts once the context exists.
Programs ==
    {[object |-> "render_target", steps |-> RenderTargetSteps],
     [object |-> "static_buffer", steps |-> StaticBufferSteps],
     [object |-> "dynamic_buffer", steps |-> DynamicBufferSteps]}
    \cup {[object |-> "texture", steps |-> TextureSteps(n)] : n \in 0..MaxLayers}

NoJob == [object |-> "none", steps |-> <<>>, pc |-> 1, status |-> "none", error |-> Success]
NewJob(program) ==
    [object |-> program.object, steps |-> program.steps, pc |-> 1,
     status |-> IF program.steps = <<>> THEN "constructed" ELSE "running",
     error |-> Success]

\* The constructor moves past the step at pc; past the last step it returns.
Advance(j) ==
    [j EXCEPT !.pc = j.pc + 1,
              !.status = IF j.pc = Len(j.steps) THEN "constructed" ELSE "running"]
\* check(result) throws std::system_error carrying the result
Throw(j, result) == [j EXCEPT !.status = "threw", !.error = result]

\* The constructor after a device call returned result: check() throws on
\* anything but VK_SUCCESS; a call made without check() goes on.
AfterDeviceCall(j, result) ==
    IF j.steps[j.pc].kind = "checked" /\ result # Success
    THEN Throw(j, result)
    ELSE Advance(j)

Running == job.status = "running"
Step == job.steps[job.pc]

\* A wait that returns at once.
QueueIdleNotAwaited(q) == TRUE

\* vkQueueWaitIdle returns once every submission to the queue has completed.
QueueIdle(q) == q.pending = {}

CtorInit ==
    /\ job = NoJob
    /\ queue = [pending |-> {}, lost |-> FALSE]
    /\ staging = 0
    /\ started = 0

\* The context's constructor runs first; the other constructors take the context.
ConstructContext ==
    /\ job.status = "none"
    /\ job' = NewJob([object |-> "context", steps |-> ContextSteps])
    /\ call' = [op |-> "construct", object |-> "context"]
    /\ UNCHANGED <<queue, staging, started>>

ContextBuilt == job.status # "none" /\ (job.object = "context" => job.status = "constructed")

\* A constructor starts when the one before has returned or thrown.
Construct ==
    /\ ContextBuilt
    /\ job.status \in {"constructed", "threw"}
    /\ ~queue.lost
    /\ started < MaxConstructions
    /\ \E program \in Programs :
        /\ job' = NewJob(program)
        /\ call' = [op |-> "construct", object |-> program.object]
    /\ started' = started + 1
    /\ UNCHANGED <<queue, staging>>

\* buffer_info.size of the staging buffer, 16*1024*1024, which is also the
\* size of the mapping mapped_staging_memory points to
StagingSize == 16777216

\* The byte counts of a copy into the staging buffer: static_buffer's size
\* argument, or compute_image_size(...) of a texture's extent and format
CopySizes == {1, StagingSize, StagingSize + 1}

\* memcpy(ctx->mapped_staging_memory, ..., n) writes the bytes first..last of
\* the mapping.  No statement compares n with the staging buffer's size; a
\* copy that runs past the mapping is undefined behaviour, after which the
\* constructor goes on or the process is gone.
MemcpyStaging ==
    /\ Running
    /\ Step.kind = "host"
    /\ staging' = staging + 1
    /\ \E n \in CopySizes :
        /\ \/ job' = Advance(job)
           \/ n > StagingSize /\ job' = [job EXCEPT !.status = "crashed"]
        /\ call' = [op |-> "memcpy_staging", object |-> job.object, size |-> n,
                    first |-> 0, last |-> n - 1]
    /\ UNCHANGED <<queue, started>>

\* A device call other than vkQueueWaitIdle returns one of Results.  A
\* vkQueueSubmit that succeeds hands the queue a transfer that reads the staging
\* buffer as the host last wrote it.
DeviceCall ==
    /\ Running
    /\ Step.kind # "host"
    /\ Step.call # "vkQueueWaitIdle"
    /\ \E result \in Results :
        /\ job' = AfterDeviceCall(job, result)
        /\ queue' = IF Step.call = "vkQueueSubmit" /\ result = Success
                    THEN [queue EXCEPT !.pending =
                              queue.pending \cup {[n |-> started, pc |-> job.pc,
                                                   source |-> staging]}]
                    ELSE queue
        /\ call' = [op |-> "device_call", name |-> Step.call, result |-> result]
    /\ UNCHANGED <<staging, started>>

\* vkQueueWaitIdle blocks until the queue is idle and returns VK_SUCCESS.
WaitIdle ==
    /\ Running
    /\ Step.call = "vkQueueWaitIdle"
    /\ QueueIdle(queue)
    /\ job' = AfterDeviceCall(job, Success)
    /\ call' = [op |-> "device_call", name |-> Step.call, result |-> Success]
    /\ UNCHANGED <<queue, staging, started>>

\* vkQueueWaitIdle returns VK_ERROR_DEVICE_LOST: the device executes nothing
\* any more, and the run ends with the exception.
WaitIdleDeviceLost ==
    /\ Running
    /\ Step.call = "vkQueueWaitIdle"
    /\ job' = AfterDeviceCall(job, "VK_ERROR_DEVICE_LOST")
    /\ queue' = [pending |-> {}, lost |-> TRUE]
    /\ call' = [op |-> "device_call", name |-> Step.call, result |-> "VK_ERROR_DEVICE_LOST"]
    /\ UNCHANGED <<staging, started>>

\* The GPU completes a submitted transfer, reading the staging buffer.
TransferCompletes ==
    /\ \E t \in queue.pending :
        /\ queue' = [queue EXCEPT !.pending = queue.pending \ {t}]
        /\ call' = [op |-> "transfer_completes", source |-> t.source, read |-> staging]
    /\ UNCHANGED <<job, staging, started>>

NextCtor ==
    /\ (ConstructContext \/ Construct \/ MemcpyStaging \/ DeviceCall \/ WaitIdle
        \/ WaitIdleDeviceLost \/ TransferCompletes)
    /\ UNCHANGED <<bufVars, poolVars, texVars, matVars, drawVars>>

(***************************************************************************)
(* The free functions to_string(VkResult) and transition_layout            *)
(***************************************************************************)
\* The result codes to_string has a case for
ResultTable ==
    {"VK_SUCCESS", "VK_NOT_READY", "VK_TIMEOUT", "VK_EVENT_SET", "VK_EVENT_RESET",
     "VK_INCOMPLETE", "VK_ERROR_OUT_OF_HOST_MEMORY", "VK_ERROR_OUT_OF_DEVICE_MEMORY",
     "VK_ERROR_INITIALIZATION_FAILED", "VK_ERROR_DEVICE_LOST",
     "VK_ERROR_MEMORY_MAP_FAILED", "VK_ERROR_LAYER_NOT_PRESENT",
     "VK_ERROR_EXTENSION_NOT_PRESENT", "VK_ERROR_FEATURE_NOT_PRESENT",
     "VK_ERROR_INCOMPATIBLE_DRIVER", "VK_ERROR_TOO_MANY_OBJECTS",
     "VK_ERROR_FORMAT_NOT_SUPPORTED", "VK_ERROR_FRAGMENTED_POOL",
     "VK_ERROR_SURFACE_LOST_KHR", "VK_ERROR_NATIVE_WINDOW_IN_USE_KHR",
     "VK_SUBOPTIMAL_KHR", "VK_ERROR_OUT_OF_DATE_KHR",
     "VK_ERROR_INCOMPATIBLE_DISPLAY_KHR", "VK_ERROR_VALIDATION_FAILED_EXT",
     "VK_ERROR_INVALID_SHADER_NV", "VK_ERROR_OUT_OF_POOL_MEMORY_KHR"}

\* The result codes the model passes to to_string: the table and two codes of
\* VkResult it has no case for
ResultCodes ==
    ResultTable \cup {"VK_ERROR_INVALID_EXTERNAL_HANDLE", "VK_ERROR_NOT_PERMITTED_EXT"}

\* to_string(result): the default case calls the [[noreturn]] fail_fast()
to_string(result) ==
    IF result \in ResultTable
    THEN [terminated |-> FALSE, string |-> result]
    ELSE [terminated |-> TRUE]

\* The command buffers the model passes to transition_layout
CommandBuffers ==
    {<<>>, <<[cmd |-> "vkCmdCopyBufferToImage", array_layer |-> 0, dst |-> 0,
              dstLayout |-> "TRANSFER_DST_OPTIMAL"]>>}

ToStringCall ==
    \E result \in ResultCodes :
        call' = [op |-> "to_string", result |-> result, outcome |-> to_string(result)]

TransitionLayoutCall ==
    \E cb \in CommandBuffers, old \in ImageLayouts, new \in ImageLayouts :
        call' = [op |-> "transition_layout", before |-> cb, old |-> old, new |-> new,
                 after |-> transition_layout(Recording(cb), 0, 0, old, new)]

NextUtil ==
    /\ ToStringCall \/ TransitionLayoutCall
    /\ UNCHANGED <<bufVars, poolVars, texVars, matVars, drawVars, ctorVars>>

(***************************************************************************)
(* select_physical_device                                                  *)
(***************************************************************************)
\* The most physical devices the instance enumerates.
MaxDevices == 2

\* The extension lists the caller requires
RequiredExtensions == {<<>>, <<"VK_KHR_swapchain">>}

\* What the instance reports for a physical device: its extensions, the
\* numbers of surface formats and present modes for the example surface, and
\* for each queue family whether it has VK_QUEUE_GRAPHICS_BIT and whether it
\* can present to the surface
PhysicalDevices ==
    [extensions : {{}, {"VK_KHR_swapchain"}},
     surface_formats : {0, 1},
     present_modes : {0, 1},
     queue_families : {<<>>,
                       <<[graphics |-> TRUE, present |-> FALSE]>>,
                       <<[graphics |-> TRUE, present |-> FALSE],
                         [graphics |-> TRUE, present |-> TRUE]>>}]

has_extension(extensions, name) == name \in extensions

\* An extension loop whose continue skips the device.
SkippedForExtensionsOuter(d, required_extensions) ==
    \E i \in DOMAIN required_extensions : ~has_extension(d.extensions, required_extensions[i])

\* for(auto req : required_extensions) if(!has_extension(extensions, req))
\* continue;  The continue is the last statement of the body of the loop over
\* required_extensions and goes on to that loop's next req.  The loop has no
\* other effect, so the device is not skipped whatever has_extension returns.
SkippedForExtensions(d, required_extensions) ==
    /\ \E i \in DOMAIN required_extensions : ~has_extension(d.extensions, required_extensions[i])
    /\ FALSE

\* The index (from 0) of the first queue family with graphics and present, or
\* -1 when the loop over the families ends without returning
FirstQueueFamily(d) ==
    LET hits == {i \in DOMAIN d.queue_families :
                    d.queue_families[i].graphics /\ d.queue_families[i].present}
    IN  IF hits = {} THEN -1 ELSE (CHOOSE i \in hits : \A j \in hits : i <= j) - 1

\* select_physical_device: the loop over physical_devices from device n on
RECURSIVE select_physical_device(_, _, _)
select_physical_device(physical_devices, n, required_extensions) ==
    IF n > Len(physical_devices)
    THEN [threw |-> "no suitable Vulkan device present"]
    ELSE LET d == physical_devices[n] IN
         IF SkippedForExtensions(d, required_extensions)
         THEN select_physical_device(physical_devices, n + 1, required_extensions)
         ELSE IF d.surface_formats = 0 \/ d.present_modes = 0
         THEN select_physical_device(physical_devices, n + 1, required_extensions)
         ELSE IF FirstQueueFamily(d) < 0
         THEN select_physical_device(physical_devices, n + 1, required_extensions)
         ELSE [threw |-> "none", physical_device |-> n, queue_family |-> FirstQueueFamily(d)]

SelectPhysicalDevice ==
    \E ds \in SeqsUpTo(PhysicalDevices, MaxDevices), req \in RequiredExtensions :
        call' = [op |-> "select_physical_device", physical_devices |-> ds,
                 required_extensions |-> req,
                 selection |-> select_physical_device(ds, 1, req)]

NextSelect ==
    /\ SelectPhysicalDevice
    /\ UNCHANGED <<bufVars, poolVars, texVars, matVars, drawVars, ctorVars>>

(***************************************************************************)
(* transform.h: transforming vectors, points and matrices                  *)
(*                                                                         *)
(* A float3 or float4 is the sequence of its components; a matrix is the   *)
(* sequence of its columns, as linalg.h stores it.  The components of the  *)
(* model are small integers, on which float arithmetic is exact.           *)
(***************************************************************************)
\* linalg.h: operator - on vectors
VSub(u, v) == [i \in DOMAIN u |-> u[i] - v[i]]

\* linalg.h: mul(m, v) is the sum of the columns of m scaled by v's components
mul(m, v) ==
    LET RECURSIVE ColumnSum(_, _)
        ColumnSum(i, j) == IF j = 0 THEN 0 ELSE m[j][i] * v[j] + ColumnSum(i, j - 1)
    IN  [i \in DOMAIN m[1] |-> ColumnSum(i, Len(m))]

\* linalg.h: mul(a, b) of two matrices transforms each column of b
MulMM(a, b) == [j \in DOMAIN b |-> mul(a, b[j])]

\* m without one row and one column
Minor(m, row, col) ==
    LET Without(s, k) == [i \in 1..(Len(s) - 1) |-> IF i < k THEN s[i] ELSE s[i + 1]]
    IN  [j \in 1..(Len(m) - 1) |-> Without(Without(m, col)[j], row)]

\* linalg.h: determinant(m), by expansion along the first column
RECURSIVE Det(_)
Det(m) ==
    LET RECURSIVE Terms(_)
        Terms(row) ==
            IF row = 0 THEN 0
            ELSE (IF row % 2 = 1 THEN 1 ELSE -1) * m[1][row] * Det(Minor(m, row, 1))
                 + Terms(row - 1)
    IN  IF Len(m) = 1 THEN m[1][1] ELSE Terms(Len(m))

\* linalg.h: inverse(m) is adjugate(m) / determinant(m); the quotient is exact
\* for the matrices of the model, whose determinant is 1 or -1
inverse(m) ==
    [j \in DOMAIN m |-> [i \in DOMAIN m |->
        ((IF (i + j) % 2 = 0 THEN 1 ELSE -1) * Det(Minor(m, j, i))) \div Det(m)]]

\* linalg.h: qxdir, qydir, qzdir are the images of the axes under the
\* quaternion q = <<x, y, z, w>>, and qrot(q, v) their combination by v
QDirs(q) ==
    LET x == q[1]  y == q[2]  z == q[3]  w == q[4] IN
    << <<w*w + x*x - y*y - z*z, (x*y + z*w) * 2, (z*x - y*w) * 2>>,
       <<(x*y - z*w) * 2, w*w - x*x + y*y - z*z, (y*z + x*w) * 2>>,
       <<(z*x + y*w) * 2, (y*z - x*w) * 2, w*w - x*x - y*y + z*z>> >>
qrot(q, v) == mul(QDirs(q), v)

\* pose_matrix(p) is linalg.h's pose_matrix(p.orientation, p.position)
pose_matrix(p) ==
    LET d == QDirs(p.orientation) IN
    <<Append(d[1], 0), Append(d[2], 0), Append(d[3], 0), Append(p.position, 1)>>

\* A transform_vector on float4x4 that extends the vector with 1.
transform_vector_as_point(t, vector) ==
    IF t.kind = "float4x4" THEN SubSeq(mul(t.m, Append(vector, 1)), 1, 3)
    ELSE IF t.kind = "float3x3" THEN mul(t.m, vector)
    ELSE qrot(t.orientation, vector)

\* transform_vector, its three overloads told apart by t.kind
transform_vector(t, vector) ==
    IF t.kind = "float4x4" THEN SubSeq(mul(t.m, Append(vector, 0)), 1, 3)
    ELSE IF t.kind = "float3x3" THEN mul(t.m, vector)
    ELSE qrot(t.orientation, vector)

\* transform_point; r.xyz()/r.w divides by 1 for the affine matrices of the
\* model
transform_point(t, point) ==
    IF t.kind = "float4x4"
    THEN LET r == mul(t.m, Append(point, 1)) IN [i \in 1..3 |-> r[i] \div r[4]]
    ELSE IF t.kind = "float3x3" THEN transform_vector(t, point)
    ELSE [i \in 1..3 |-> t.position[i] + transform_vector(t, point)[i]]

\* transform_matrix; a float3x3 is taken as the float4x4
\* {{m.x,0},{m.y,0},{m.z,0},{0,0,0,1}}
transform_matrix(t, matrix) ==
    LET m == IF t.kind = "float4x4" THEN t.m
             ELSE IF t.kind = "float3x3"
             THEN <<Append(t.m[1], 0), Append(t.m[2], 0), Append(t.m[3], 0), <<0, 0, 0, 1>>>>
             ELSE pose_matrix(t)
    IN  [kind |-> "float4x4", m |-> MulMM(MulMM(m, matrix), inverse(m))]

\* A float3x3 or a float4x4 as the argument t of the overloads
AsTransform(m) == [kind |-> IF Len(m) = 3 THEN "float3x3" ELSE "float4x4", m |-> m]

\* The transforms that scale an axis
ScalingTransforms ==
    {AsTransform(<< <<1,0,0>>, <<0,2,0>>, <<0,0,1>> >>),
     AsTransform(<< <<2,0,0>>, <<0,3,0>>, <<0,0,4>> >>),
     AsTransform(<< <<-5,0,0,0>>, <<0,1,0,0>>, <<0,0,1,0>>, <<0,0,0,1>> >>),
     AsTransform(<< <<1,0,0,0>>, <<0,2,0,0>>, <<0,0,1,0>>, <<2,5,3,1>> >>)}

\* The rigid transforms and the transforms that rearrange axes
RigidTransforms ==
    {AsTransform(<< <<1,0,0>>, <<0,0,-1>>, <<0,1,0>> >>),
     AsTransform(<< <<1,0,0>>, <<0,0,1>>, <<0,1,0>> >>),
     AsTransform(<< <<0,0,1,0>>, <<0,1,0,0>>, <<-1,0,0,0>>, <<0,0,0,1>> >>),
     AsTransform(<< <<-1,0,0,0>>, <<0,1,0,0>>, <<0,0,1,0>>, <<0,0,0,1>> >>),
     AsTransform(<< <<0,1,0,0>>, <<-1,0,0,0>>, <<0,0,1,0>>, <<2,5,3,1>> >>),
     [kind |-> "rigid_pose", position |-> <<0,0,0>>, orientation |-> <<0,0,0,1>>],
     [kind |-> "rigid_pose", position |-> <<1,2,3>>, orientation |-> <<1,0,0,0>>]}

Points == {<<1,2,3>>, <<4,-5,2>>, <<-3,1,-4>>}

\* The matrices given to transform_matrix: the one that swaps y and z, an
\* affine one with a translation, and one whose last row is not 0,0,0,1
Matrices ==
    {<< <<1,0,0,0>>, <<0,0,1,0>>, <<0,1,0,0>>, <<0,0,0,1>> >>,
     << <<2,0,0,0>>, <<1,1,0,0>>, <<0,0,1,0>>, <<3,0,-1,1>> >>,
     << <<1,0,0,1>>, <<0,1,0,0>>, <<0,0,1,0>>, <<0,0,0,1>> >>}

\* test_affine_transform: the vector between two points, transformed, and the
\* difference of the transformed points.  The functions are pure: a run of
\* the model applies them to one choice of arguments.
TestAffineTransform ==
    /\ call = NoCall
    /\ \E t \in ScalingTransforms \cup RigidTransforms, a \in Points, b \in Points :
        call' = [op |-> "test_affine_transform", t |-> t, a |-> a, b |-> b,
                 vector |-> transform_vector(t, VSub(b, a)),
                 difference |-> VSub(transform_point(t, b), transform_point(t, a))]

\* test_rigid_transform: the same, and a vector transformed by the transformed
\* matrix against the transform of the vector the matrix gives
TestRigidTransform ==
    /\ call = NoCall
    /\ \E t \in RigidTransforms, a \in Points, b \in Points, m \in Matrices :
        call' = [op |-> "test_rigid_transform", t |-> t, a |-> a, b |-> b, matrix |-> m,
                 vector |-> transform_vector(t, VSub(b, a)),
                 difference |-> VSub(transform_point(t, b), transform_point(t, a)),
                 by_transformed_matrix |->
                     transform_vector(transform_matrix(t, m), transform_vector(t, VSub(b, a))),
                 transformed_after_matrix |->
                     transform_vector(t, transform_vector(AsTransform(m), VSub(b, a)))]

NextTransform ==
    /\ TestAffineTransform \/ TestRigidTransform
    /\ UNCHANGED <<bufVars, poolVars, texVars, matVars, drawVars, ctorVars>>

(***************************************************************************)
(* The specifications                                                      *)
(***************************************************************************)
DrawInitOf(cs) ==
    /\ contract \in cs
    /\ items = <<>>
    /\ cmd = <<>>
    /\ terminated = FALSE

InitBuffer ==
    call = NoCall /\ BufInit(Alignments) /\ PoolInit({1}) /\ TexInit /\ MatInit
    /\ DrawInitOf({"c1"}) /\ CtorInit
InitPool ==
    call = NoCall /\ BufInit({1}) /\ PoolInit(PoolAlignments) /\ TexInit /\ MatInit
    /\ DrawInitOf({"c1"}) /\ CtorInit
InitTexture ==
    call = NoCall /\ BufInit({1}) /\ PoolInit({1}) /\ TexInit /\ MatInit
    /\ DrawInitOf({"c1"}) /\ CtorInit
InitMaterial == InitTexture
InitCtor == InitTexture
InitDraw ==
    call = NoCall /\ BufInit({1}) /\ PoolInit({1}) /\ TexInit /\ MatInit
    /\ DrawInitOf(Contracts) /\ CtorInit

SpecBuffer   == InitBuffer /\ [][NextBuffer]_vars
SpecPool     == InitPool /\ [][NextPool]_vars
SpecTexture  == InitTexture /\ [][NextTexture]_vars
SpecMaterial == InitMaterial /\ [][NextMaterial]_vars
SpecDraw     == InitDraw /\ [][NextDraw]_vars
SpecCtor     == InitCtor /\ [][NextCtor]_vars
SpecUtil     == InitTexture /\ [][NextUtil]_vars
SpecSelect   == InitTexture /\ [][NextSelect]_vars
SpecTransform == InitTexture /\ [][NextTransform]_vars

(***************************************************************************)
(* The claims about the linear allocator (SpecBuffer)                      *)
(***************************************************************************)
Disjoint(r1, r2) ==
    \/ r1.range = 0
    \/ r2.range = 0
    \/ r1.offset + r1.range <= r2.offset
    \/ r2.offset + r2.range <= r1.offset

\* C1: as long as the bytes written since the last reset are at most the
\* capacity, the regions end() returned for distinct begin() calls do not
\* overlap and each lies within [0, capacity).
C1_RegionsDisjointWithinCapacity ==
    written <= Capacity =>
        /\ \A r1 \in regions, r2 \in regions : r1.id # r2.id => Disjoint(r1, r2)
        /\ \A r \in regions : r.offset + r.range <= Capacity

\* C2: offset + range <= capacity in every reachable state.
C2_OffsetPlusRangeWithinCapacity == db.offset + db.range <= Capacity

(***************************************************************************)
(* The claims about the transient resource pool (SpecPool)                 *)
(***************************************************************************)
\* C3: reset() runs only when the GPU is not executing a submission made with
\* the pool's fence; while one executes, no command buffer or descriptor set of
\* the pool is freed and no allocator of the pool moves back.
C3_NoRecycleWhileGpuBusy ==
    [][ /\ call'.op = "pool_reset" => ~gpu.busy
        /\ gpu.busy =>
            /\ Range(command_buffers) \subseteq Range(command_buffers')
            /\ Range(descriptor_sets) \subseteq Range(descriptor_sets')
            /\ gpu.cmds \subseteq Range(command_buffers')
            /\ \A k \in Kinds : bufs'[k].offset >= bufs[k].offset
      ]_vars

\* A reset that recycled a frame's resources after the GPU finished the frame:
\* it freed handles and rewound all three allocators.
C3_Witness ==
    /\ call.op = "pool_reset"
    /\ gpu.frames >= 1
    /\ ~gpu.busy
    /\ call.freed # {}
    /\ call.rewound = Kinds

\* C10: reset() leaves each of the three allocators at offset 0 and range 0,
\* whatever preceded it, and a begin() on an allocator in that state leaves its
\* offset at 0.
C10_ResetRewindsAllocators ==
    [][ /\ call'.op = "pool_reset" =>
            \A k \in Kinds : bufs'[k].offset = 0 /\ bufs'[k].range = 0
        /\ call'.op = "pool_begin" =>
            \A k \in Kinds : (bufs[k].offset = 0 /\ bufs[k].range = 0) => bufs'[k].offset = 0
      ]_vars

\* The second reset of a pool whose three allocators had all been written to.
C10_Witness ==
    /\ call.op = "pool_reset"
    /\ call.rewound = Kinds
    /\ gpu.frames >= 1
    /\ \A k \in Kinds : bufs[k].offset = 0 /\ bufs[k].range = 0

(***************************************************************************)
(* The claim about the mip chain (SpecTexture)                             *)
(***************************************************************************)
RECURSIVE FloorLog2(_)
FloorLog2(n) == IF n <= 1 THEN 0 ELSE 1 + FloorLog2(n \div 2)

\* C6: the constructor requests 1 + floor(log2(max(width, height, depth))) mip
\* levels.
C6_MipLevelsFloorLog2 ==
    tex.constructed =>
        tex.mipLevels =
            1 + FloorLog2(Max(tex.extent.width, Max(tex.extent.height, tex.extent.depth)))

(***************************************************************************)
(* The claims about scene_material (SpecMaterial)                          *)
(***************************************************************************)
\* The declarations of the per-object set: <<stage index, descriptor index>>
Declarations(mat) ==
    {p \in (DOMAIN mat.stages) \X (1..2) :
        /\ p[2] \in DOMAIN mat.stages[p[1]].descriptors
        /\ mat.stages[p[1]].descriptors[p[2]].set = Len(SharedLayouts(mat.contract))}
Declared(mat, p) == mat.stages[p[1]].descriptors[p[2]]
IsSamplerType(t) == t.kind = "sampler" \/ (t.kind = "array" /\ t.element.kind = "sampler")
CountOf(t) == IF t.kind = "array" THEN t.length ELSE 1
Agree(d1, d2) ==
    /\ IsSamplerType(d1.type) = IsSamplerType(d2.type)
    /\ CountOf(d1.type) = CountOf(d2.type)
Conflict(mat) ==
    \E p \in Declarations(mat), q \in Declarations(mat) :
        /\ Declared(mat, p).binding = Declared(mat, q).binding
        /\ ~Agree(Declared(mat, p), Declared(mat, q))

\* C8: when the declarations of a per-object binding agree on descriptor type
\* and count, the merged layout has exactly one entry for the binding, and its
\* stage flags are the stages that declared it.
C8_MergedBindingUnionsStages ==
    (material.constructed /\ ~Conflict(material)) =>
        /\ material.error = "none"
        /\ material.per_object_layout.created
        /\ \A p \in Declarations(material) :
            LET n       == Declared(material, p).binding
                entries == {i \in DOMAIN material.per_object_layout.bindings :
                                material.per_object_layout.bindings[i].binding = n}
            IN  /\ Cardinality(entries) = 1
                /\ \A i \in entries :
                    material.per_object_layout.bindings[i].stageFlags =
                        {material.stages[q[1]].stage :
                            q \in {r \in Declarations(material) :
                                       Declared(material, r).binding = n}}

\* A vertex and a fragment shader declared the same binding alike; the merged
\* entry is visible to both stages.
C8_Witness ==
    /\ material.constructed
    /\ material.error = "none"
    /\ Len(material.stages) = 2
    /\ \E i \in DOMAIN material.per_object_layout.bindings :
        /\ material.per_object_layout.bindings[i].binding = 3
        /\ material.per_object_layout.bindings[i].stageFlags = {"VERTEX", "FRAGMENT"}

\* C9: when two declarations of a per-object binding differ in descriptor type
\* or in count, construction fails with a mismatch error, and neither the
\* per-object layout nor the pipeline layout nor a pipeline is created.
C9_MismatchFailsConstruction ==
    (material.constructed /\ Conflict(material)) =>
        /\ material.error \in {"descriptor type mismatch", "descriptor count mismatch"}
        /\ ~material.per_object_layout.created
        /\ ~material.pipeline_layout.created
        /\ material.pipelines = <<>>

\* Two stages declared binding 3 with counts 1 and 2.
C9_Witness ==
    /\ material.constructed
    /\ material.error = "descriptor count mismatch"
    /\ Len(material.stages) = 2
    /\ material.stages[1].stage # material.stages[2].stage
    /\ ~material.per_object_layout.created

(***************************************************************************)
(* The claims about the draw list (SpecDraw)                               *)
(***************************************************************************)
\* C4: a draw(), of any overload, with a descriptor set whose material was built
\* against another contract fails fast: no item is appended and nothing is
\* recorded.
C4_ForeignMaterialFailsFast ==
    [][ (call'.op = "draw" /\ MaterialContract(call'.material) # contract) =>
            (terminated' /\ items' = items /\ cmd' = <<>>)
      ]_vars

\* A mesh draw with a foreign material ended the process and left the items of
\* the earlier draws as they were.
C4_Witness ==
    /\ call.op = "draw"
    /\ call.overload # "explicit"
    /\ MaterialContract(call.material) # contract
    /\ terminated
    /\ items # <<>>

MismatchAt(shared_descriptors, c) ==
    {i \in DOMAIN shared_descriptors :
        i <= Len(SharedLayouts(c)) /\ shared_descriptors[i].layout # SharedLayouts(c)[i]}

\* C5: write_commands with shared sets whose number differs from the contract's
\* shared layouts, or with a set whose layout differs at some index, throws
\* "contract violation" and has recorded no command.
C5_SharedMismatchRecordsNothing ==
    (/\ call.op = "write_commands"
     /\ \/ Len(call.shared_descriptors) # Len(SharedLayouts(contract))
        \/ MismatchAt(call.shared_descriptors, contract) # {}) =>
        (call.error = "contract violation" /\ cmd = <<>>)

\* A list with items refused shared sets whose only mismatch is at the last
\* index.
C5_Witness ==
    /\ call.op = "write_commands"
    /\ items # <<>>
    /\ Len(call.shared_descriptors) = Len(SharedLayouts(contract))
    /\ MismatchAt(call.shared_descriptors, contract) = {Len(SharedLayouts(contract))}
    /\ Len(SharedLayouts(contract)) = 2
    /\ call.error = "contract violation"
    /\ cmd = <<>>

\* C7: a mesh draw with a material subset of n indices appends n items in subset
\* order; the item of material index m has first_index = 3 * first_triangle and
\* index_count = 3 * num_triangles of materials[m], and every item binds the
\* mesh's vertex buffer and index buffer at offset 0.
C7_MeshDrawAppendsOneItemPerMaterial ==
    [][ (call'.op = "draw" /\ call'.overload # "explicit" /\ ~terminated') =>
            /\ Len(items') = Len(items) + Len(call'.mtls)
            /\ SubSeq(items', 1, Len(items)) = items
            /\ \A j \in DOMAIN call'.mtls :
                LET item == items'[Len(items) + j]
                    mtl  == Mesh.materials[call'.mtls[j] + 1]
                IN  /\ item.first_index = 3 * mtl.first_triangle
                    /\ item.index_count = 3 * mtl.num_triangles
                    /\ item.vertex_buffers[1] = Mesh.vertex_buffer
                    /\ item.vertex_buffer_offsets[1] = 0
                    /\ item.index_buffer = Mesh.index_buffer
                    /\ item.index_buffer_offset = 0
      ]_vars

\* The subset {1, 2}: two items, for triangles [10, 40) and [40, 45).
C7_Witness ==
    /\ call.op = "draw"
    /\ call.mtls = <<1, 2>>
    /\ ~terminated
    /\ Len(items) >= 2
    /\ items[Len(items) - 1].first_index = 30
    /\ items[Len(items) - 1].index_count = 90
    /\ items[Len(items)].first_index = 120
    /\ items[Len(items)].index_count = 15

IsDrawIndexed(c) == c.cmd = "vkCmdDrawIndexed"
IndexedDraws(commands) == SelectSeq(commands, IsDrawIndexed)

\* C11: draw() appends behind the items already in the list, and a successful
\* write_commands records one indexed draw per item, the k-th with the index
\* count, instance count and first index of the k-th item.
C11_OneIndexedDrawPerItemInOrder ==
    [][ /\ (call'.op = "draw" /\ ~terminated') =>
            (Len(items') >= Len(items) /\ SubSeq(items', 1, Len(items)) = items)
        /\ (call'.op = "write_commands" /\ call'.error = "none") =>
            /\ items' = items
            /\ Len(IndexedDraws(cmd')) = Len(items)
            /\ \A k \in DOMAIN items :
                /\ IndexedDraws(cmd')[k].index_count = items[k].index_count
                /\ IndexedDraws(cmd')[k].instance_count = items[k].instance_count
                /\ IndexedDraws(cmd')[k].first_index = items[k].first_index
      ]_vars

\* A list of three items with different index ranges, written in item order.
C11_Witness ==
    /\ call.op = "write_commands"
    /\ call.error = "none"
    /\ Len(items) = 3
    /\ items[1].index_count # items[2].index_count
    /\ items[2].index_count # items[3].index_count
    /\ Len(IndexedDraws(cmd)) = 3
    /\ IndexedDraws(cmd)[3].index_count = items[3].index_count

\* The positions of a step in the steps of a reset
Positions(steps, name) == {i \in DOMAIN steps : steps[i] = name}
Frees == {"vkFreeCommandBuffers", "vkFreeDescriptorSets"}
PoolResets == {"vkResetCommandPool", "vkResetDescriptorPool"}
AllocatorResets == {"uniform_buffer.reset", "vertex_buffer.reset", "index_buffer.reset"}
Before(steps, earlier, later) ==
    \A a \in earlier, b \in later :
        \A i \in Positions(steps, a), j \in Positions(steps, b) : i < j

\* C12: reset() waits for the fence, resets the fence, frees the command buffers
\* and the descriptor sets, then resets the two pools, then rewinds the three
\* allocators: both frees come before either pool reset.
C12_FreesBeforePoolResets ==
    call.op = "pool_reset" =>
        /\ call.steps[1] = "vkWaitForFences"
        /\ call.steps[2] = "vkResetFences"
        /\ Before(call.steps, Frees, PoolResets)
        /\ Before(call.steps, PoolResets, AllocatorResets)

\* C12 as the code has it: wait, reset the fence, free the command buffers (when
\* there are any) and reset the command pool, free the descriptor sets (when
\* there are any) and reset the descriptor pool, and rewind the uniform, vertex
\* and index allocators last; each step happens once.
C12_EachFreeBeforeItsPoolReset ==
    call.op = "pool_reset" =>
        LET steps == call.steps
            n     == Len(steps)
        IN  /\ steps[1] = "vkWaitForFences"
            /\ steps[2] = "vkResetFences"
            /\ \A name \in {"vkWaitForFences", "vkResetFences"} \cup PoolResets
                           \cup AllocatorResets :
                    Cardinality(Positions(steps, name)) = 1
            /\ Cardinality(Positions(steps, "vkFreeCommandBuffers")) =
                    (IF call.freed \cap CmdHandles # {} THEN 1 ELSE 0)
            /\ Cardinality(Positions(steps, "vkFreeDescriptorSets")) =
                    (IF call.freed \cap SetHandles # {} THEN 1 ELSE 0)
            /\ Before(steps, {"vkResetFences"}, Frees \cup PoolResets)
            /\ Before(steps, {"vkFreeCommandBuffers"}, {"vkResetCommandPool"})
            /\ Before(steps, {"vkResetCommandPool"},
                      {"vkFreeDescriptorSets", "vkResetDescriptorPool"})
            /\ Before(steps, {"vkFreeDescriptorSets"}, {"vkResetDescriptorPool"})
            /\ Before(steps, PoolResets, AllocatorResets)
            /\ SubSeq(steps, n - 2, n) =
                    <<"uniform_buffer.reset", "vertex_buffer.reset", "index_buffer.reset">>

\* A reset of a pool that held command buffers and a descriptor set.
C12_Witness ==
    /\ call.op = "pool_reset"
    /\ call.freed \cap CmdHandles # {}
    /\ call.freed \cap SetHandles # {}
    /\ Len(call.steps) = 9

Recorded(cbs, dss) == Range(cbs) \cup Range(dss)
NoDuplicates(handles) == Cardinality(Range(handles)) = Len(handles)

\* C13: a handle an allocate call returns is one the device holds no more, and
\* the pool records it; the recorded handles are at every moment the handles
\* allocated and not yet freed, each recorded once; reset() frees all of them,
\* none of them freed before, and leaves both lists empty.
C13_HandlesFreedExactlyOnce ==
    [][ /\ live' = Recorded(command_buffers', descriptor_sets')
        /\ NoDuplicates(command_buffers') /\ NoDuplicates(descriptor_sets')
        /\ call'.op = "allocate_command_buffer" =>
            /\ call'.handle \notin live
            /\ command_buffers' = Append(command_buffers, call'.handle)
        /\ call'.op = "allocate_descriptor_set" =>
            /\ call'.handle \notin live
            /\ descriptor_sets' = Append(descriptor_sets, call'.handle)
        /\ call'.op = "pool_reset" =>
            /\ call'.freed = Recorded(command_buffers, descriptor_sets)
            /\ call'.freed \subseteq live
            /\ command_buffers' = <<>> /\ descriptor_sets' = <<>>
            /\ live' = {}
        /\ call'.op \notin {"allocate_command_buffer", "allocate_descriptor_set", "pool_reset"} =>
            /\ command_buffers' = command_buffers
            /\ descriptor_sets' = descriptor_sets
      ]_vars

\* The second frame's reset freed the handles of the second frame, after the
\* first frame's reset had freed the first frame's.
C13_Witness ==
    /\ call.op = "pool_reset"
    /\ gpu.frames = 2
    /\ Cardinality(call.freed) = 3
    /\ live = {}
    /\ command_buffers = <<>>

\* C14: only reset() lowers offset, and it lowers it to 0; write(size) copies to
\* [offset+range, offset+range+size), adds size to range and leaves offset as it
\* was.
C14_OffsetAdvancesWriteAppends ==
    [][ /\ call'.op # "reset" => db'.offset >= db.offset
        /\ db'.offset < db.offset => (call'.op = "reset" /\ db'.offset = 0)
        /\ call'.op = "write" =>
            /\ call'.at = db.offset + db.range
            /\ db'.range = db.range + call'.size
            /\ db'.offset = db.offset
        /\ call'.op = "end" => db' = db
      ]_vars

\* A write of two bytes behind one byte of a region that does not start at 0.
C14_Witness ==
    /\ call.op = "write"
    /\ call.size = 2
    /\ db.offset > 0
    /\ call.at = db.offset + 1
    /\ db.range = 3

IsBindVertexBuffers(c) == c.cmd = "vkCmdBindVertexBuffers"

\* C15: every item of the list has a vertex_buffer_count of at most 4, which is
\* at most the number of (buffer, offset) pairs the item holds, and no
\* vkCmdBindVertexBuffers that write_commands records binds more buffers than
\* the item holds.
C15_AtMostFourVertexBuffers ==
    /\ \A i \in DOMAIN items :
        /\ items[i].vertex_buffer_count <= 4
        /\ items[i].vertex_buffer_count <= Len(items[i].vertex_buffers)
    /\ \A j \in DOMAIN cmd :
        IsBindVertexBuffers(cmd[j]) => cmd[j].binding_count <= Len(cmd[j].buffers)

MeshDrawDone(c, t) == c.op = "draw" /\ c.overload # "explicit" /\ ~t

\* C16: a mesh draw given an instance buffer binds it as the second of two
\* vertex buffers, at the instance buffer's offset, with instance_count =
\* range / instance_stride; a mesh draw given no instance buffer has one vertex
\* buffer and an instance_count of 1.
C16_InstancedWhenBufferSupplied ==
    [][ MeshDrawDone(call', terminated') =>
            \A j \in DOMAIN call'.mtls :
                LET item == items'[Len(items) + j] IN
                IF call'.instances.buffer # NullHandle
                THEN /\ item.vertex_buffer_count = 2
                     /\ item.vertex_buffers[2] = call'.instances.buffer
                     /\ item.vertex_buffer_offsets[2] = call'.instances.offset
                     /\ call'.instance_stride # 0 =>
                            item.instance_count =
                                call'.instances.range \div call'.instance_stride
                ELSE /\ item.vertex_buffer_count = 1
                     /\ item.instance_count = 1
      ]_vars

\* C16 as the code has it: the instance_stride decides.  With a stride other
\* than 0 the item has two vertex buffers, the second the instances argument's
\* buffer at its offset, and instance_count = range / instance_stride; with a
\* stride of 0 it has one vertex buffer and an instance_count of 1.
C16_InstancedWhenStrideGiven ==
    [][ MeshDrawDone(call', terminated') =>
            \A j \in DOMAIN call'.mtls :
                LET item == items'[Len(items) + j] IN
                IF call'.instance_stride # 0
                THEN /\ item.vertex_buffer_count = 2
                     /\ item.vertex_buffers[2] = call'.instances.buffer
                     /\ item.vertex_buffer_offsets[2] = call'.instances.offset
                     /\ item.instance_count =
                            call'.instances.range \div call'.instance_stride
                ELSE /\ item.vertex_buffer_count = 1
                     /\ item.instance_count = 1
      ]_vars

\* An instanced mesh draw of a 10-byte instance buffer with stride 4: two
\* instances, the buffer bound second at offset 8.
C16_Witness ==
    /\ MeshDrawDone(call, terminated)
    /\ call.instance_stride = 4
    /\ call.instances.buffer = "inst"
    /\ call.mtls # <<>>
    /\ items[Len(items)].vertex_buffer_count = 2
    /\ items[Len(items)].vertex_buffers[2] = "inst"
    /\ items[Len(items)].vertex_buffer_offsets[2] = 8
    /\ items[Len(items)].instance_count = 2

WriteCommandsDone == call.op = "write_commands" /\ call.error = "none"
\* The number of commands recorded ahead of the first item's
SharedBinds == IF Len(call.shared_descriptors) > 0 THEN 1 ELSE 0

\* C17: after a successful write_commands the command buffer holds, for the k-th
\* item, five commands in a row: bind the pipeline of the item's material for
\* the render pass, bind the item's descriptor set at the set index that is the
\* number of shared sets, bind the item's vertex buffers at their offsets from
\* binding 0, bind the item's index buffer at its offset, and draw indexed with
\* the item's index count, instance count and first index, vertex offset 0 and
\* first instance 0.
C17_ItemCommandOrder ==
    WriteCommandsDone =>
        /\ Len(cmd) = SharedBinds + 5 * Len(items)
        /\ \A k \in DOMAIN items :
            LET at   == SharedBinds + 5 * (k - 1)
                item == items[k]
            IN  /\ cmd[at + 1].cmd = "vkCmdBindPipeline"
                /\ cmd[at + 1].pipeline.material = item.material
                /\ cmd[at + 1].pipeline.pass = call.render_pass_index
                /\ cmd[at + 2].cmd = "vkCmdBindDescriptorSets"
                /\ cmd[at + 2].layout = [owner |-> "material", id |-> item.material]
                /\ cmd[at + 2].first_set = Len(call.shared_descriptors)
                /\ cmd[at + 2].sets = <<item.set>>
                /\ cmd[at + 3].cmd = "vkCmdBindVertexBuffers"
                /\ cmd[at + 3].first_binding = 0
                /\ cmd[at + 3].binding_count = item.vertex_buffer_count
                /\ cmd[at + 3].buffers = item.vertex_buffers
                /\ cmd[at + 3].offsets = item.vertex_buffer_offsets
                /\ cmd[at + 4].cmd = "vkCmdBindIndexBuffer"
                /\ cmd[at + 4].buffer = item.index_buffer
                /\ cmd[at + 4].offset = item.index_buffer_offset
                /\ cmd[at + 5].cmd = "vkCmdDrawIndexed"
                /\ cmd[at + 5].index_count = item.index_count
                /\ cmd[at + 5].instance_count = item.instance_count
                /\ cmd[at + 5].first_index = item.first_index
                /\ cmd[at + 5].vertex_offset = 0
                /\ cmd[at + 5].first_instance = 0

\* Two items written behind two shared sets for the second render pass: the
\* second item's descriptor set is bound at set index 2.
C17_Witness ==
    /\ WriteCommandsDone
    /\ Len(call.shared_descriptors) = 2
    /\ call.render_pass_index = 2
    /\ Len(items) = 2
    /\ items[2].instance_count = 2
    /\ Len(cmd) = 11
    /\ cmd[8].first_set = 2
    /\ cmd[11].cmd = "vkCmdDrawIndexed"

IsSharedBind(c) == c.cmd = "vkCmdBindDescriptorSets" /\ c.layout.owner = "contract"

\* C18: after a successful write_commands the command buffer holds one bind of
\* the shared sets when the contract has shared layouts, and none when it has
\* not; the bind is the first command, starts at set index 0, carries the sets
\* in the order of the contract's layouts, and uses the contract's layout.
C18_SharedSetsBoundOnceFirst ==
    WriteCommandsDone =>
        LET binds == {j \in DOMAIN cmd : IsSharedBind(cmd[j])} IN
        IF Len(SharedLayouts(contract)) = 0
        THEN binds = {}
        ELSE /\ binds = {1}
             /\ cmd[1].first_set = 0
             /\ cmd[1].layout.id = contract
             /\ Len(cmd[1].sets) = Len(SharedLayouts(contract))
             /\ \A i \in DOMAIN cmd[1].sets :
                    /\ cmd[1].sets[i] = call.shared_descriptors[i].set
                    /\ call.shared_descriptors[i].layout = SharedLayouts(contract)[i]

\* Three items written behind the two shared sets of the contract: one bind of
\* the shared sets, ahead of the fifteen commands of the items.
C18_Witness ==
    /\ WriteCommandsDone
    /\ Len(SharedLayouts(contract)) = 2
    /\ Len(items) = 3
    /\ IsSharedBind(cmd[1])
    /\ Len(cmd[1].sets) = 2
    /\ cmd[1].sets[1] # cmd[1].sets[2]
    /\ Len(cmd) = 16

(***************************************************************************)
(* The claims about the constructors and the staging buffer (SpecCtor)     *)
(***************************************************************************)
\* C19: whenever a device call returns a result other than VK_SUCCESS, the
\* constructor that made it throws an error carrying that result and goes no
\* further.
C19_EveryResultChecked ==
    (call.op = "device_call" /\ call.result # Success) =>
        (job.status = "threw" /\ job.error = call.result)

IsBarrier(c) == c.cmd = "vkCmdPipelineBarrier"
Writes(c, level) == c.cmd \in {"vkCmdCopyBufferToImage", "vkCmdBlitImage"} /\ c.dst = level
Reads(c, level) == c.cmd = "vkCmdBlitImage" /\ c.src = level

\* The layout a mip level is in before command n of a batch: the new layout of
\* the last barrier on it, or the image's initial layout
LayoutBefore(cs, n, level) ==
    LET earlier == {m \in 1..(n - 1) : IsBarrier(cs[m]) /\ cs[m].mip_level = level}
    IN  IF earlier = {} THEN "UNDEFINED"
        ELSE cs[CHOOSE m \in earlier : \A k \in earlier : k <= m].newLayout

\* C21: in the batch of every array layer, each barrier's old layout is the
\* layout its mip level is in; a level becomes shader-read-only only after the
\* command that wrote it and, when a blit reads it, after that blit; and at the
\* end of the batch every level 0..mipLevels-1 is shader-read-only.
C21_MipChainLayouts ==
    tex.constructed =>
        \A l \in 1..tex.layers :
            LET r == tex.batches[l]
                cs == r.commands
            IN  /\ ~r.threw
                /\ \A n \in 1..Len(cs) : cs[n].array_layer = l - 1
                /\ \A n \in 1..Len(cs) :
                    IsBarrier(cs[n]) =>
                        /\ cs[n].mip_level \in 0..(tex.mipLevels - 1)
                        /\ cs[n].oldLayout = LayoutBefore(cs, n, cs[n].mip_level)
                        /\ cs[n].newLayout = "SHADER_READ_ONLY_OPTIMAL" =>
                            /\ \E w \in 1..(n - 1) : Writes(cs[w], cs[n].mip_level)
                            /\ cs[n].mip_level < tex.mipLevels - 1 =>
                                \E b \in 1..(n - 1) : Reads(cs[b], cs[n].mip_level)
                            /\ \A b \in 1..Len(cs) :
                                (Reads(cs[b], cs[n].mip_level)
                                 \/ Writes(cs[b], cs[n].mip_level)) => b < n
                /\ \A level \in 0..(tex.mipLevels - 1) :
                    LayoutBefore(cs, Len(cs) + 1, level) = "SHADER_READ_ONLY_OPTIMAL"

C21_Witness ==
    /\ tex.constructed
    /\ tex.layers = 2
    /\ tex.mipLevels >= 3
    /\ Len(tex.batches[2].commands) = 3 + 4 * (tex.mipLevels - 1)

(***************************************************************************)
(* The claim about to_string and transition_layout (SpecUtil)              *)
(***************************************************************************)
\* C22: transition_layout with an old or a new layout it has no case for
\* throws and leaves the command buffer as it was; to_string with a result
\* code it has no case for terminates the process and returns no string.
C22_UnknownLayoutOrResultFails ==
    /\ (call.op = "transition_layout"
        /\ (call.old \notin OldLayouts \/ call.new \notin NewLayouts)) =>
            (call.after.threw /\ call.after.commands = call.before)
    /\ (call.op = "to_string" /\ call.result \notin ResultTable) =>
            (call.outcome.terminated /\ DOMAIN call.outcome = {"terminated"})

C22_Witness ==
    /\ call.op = "transition_layout"
    /\ call.old = "TRANSFER_DST_OPTIMAL"
    /\ call.new = "UNDEFINED"
    /\ call.before # <<>>
    /\ call.after.threw

(***************************************************************************)
(* The claim about the alignment of regions (SpecBuffer)                   *)
(***************************************************************************)
\* ceil(n / a) for n >= 0 and a >= 1
CeilDiv(n, a) == IF n % a = 0 THEN n \div a ELSE (n \div a) + 1

\* C23: begin() sets offset to offset + ceil(range / alignment) * alignment
\* and range to 0; every region end() has returned since the last reset starts
\* at a multiple of the alignment and at or past the end of the region of
\* every earlier begin().
C23_BeginRoundsUpToAlignment ==
    [][ /\ call'.op = "begin" =>
            /\ db'.offset = db.offset + CeilDiv(db.range, db.alignment) * db.alignment
            /\ db'.range = 0
        /\ \A r \in regions' : r.offset % db'.alignment = 0
        /\ \A r1 \in regions', r2 \in regions' :
            r1.id < r2.id => r1.offset + r1.range <= r2.offset
      ]_vars

C23_Witness ==
    /\ call.op = "end"
    /\ db.alignment = 2
    /\ \E r1 \in regions, r2 \in regions :
        /\ r1.id = 1 /\ r2.id = 2
        /\ r1.offset = 2 /\ r1.range = 1
        /\ r2.offset = 4 /\ r2.range > 0

(***************************************************************************)
(* The claims about a scene_material's pipelines and layout (SpecMaterial) *)
(***************************************************************************)
RECURSIVE WithoutFragment(_)
WithoutFragment(kinds) ==
    IF kinds = <<>> THEN <<>>
    ELSE IF Head(kinds) = "FRAGMENT" THEN WithoutFragment(Tail(kinds))
    ELSE <<Head(kinds)>> \o WithoutFragment(Tail(kinds))

SuppliedStages(mat) == [i \in DOMAIN mat.stages |-> mat.stages[i].stage]

\* C24: a constructed scene_material has one pipeline per render pass of its
\* contract, in the contract's order; the pipeline of a pass with a color
\* attachment is built from all the supplied stages, the pipeline of a pass
\* with none from the supplied stages that are not fragment stages.
C24_OnePipelinePerRenderPass ==
    (material.constructed /\ material.error = "none") =>
        LET passes == RenderPasses(material.contract) IN
        /\ Len(material.pipelines) = Len(passes)
        /\ \A i \in DOMAIN passes :
            /\ material.pipelines[i].pass = passes[i].id
            /\ passes[i].color_attachment_count > 0 =>
                material.pipelines[i].stages = SuppliedStages(material)
            /\ passes[i].color_attachment_count = 0 =>
                material.pipelines[i].stages = WithoutFragment(SuppliedStages(material))

C24_Witness ==
    /\ material.constructed
    /\ material.error = "none"
    /\ material.contract = "c1"
    /\ SuppliedStages(material) = <<"VERTEX", "FRAGMENT">>
    /\ material.pipelines[1] = [pass |-> "shadow", stages |-> <<"VERTEX">>]
    /\ material.pipelines[2] = [pass |-> "main", stages |-> <<"VERTEX", "FRAGMENT">>]

\* C25: the per-object layout of a constructed scene_material has an entry for
\* exactly the binding numbers declared in set k, the number of shared layouts
\* of the contract, with a declaration's type and count; declarations of other
\* sets add nothing, and no binding number has two entries.
C25_PerObjectLayoutIsSetK ==
    (material.constructed /\ material.error = "none") =>
        LET bs == material.per_object_layout.bindings IN
        /\ {bs[i].binding : i \in DOMAIN bs} =
               {Declared(material, p).binding : p \in Declarations(material)}
        /\ \A i \in DOMAIN bs, j \in DOMAIN bs : bs[i].binding = bs[j].binding => i = j
        /\ \A i \in DOMAIN bs :
            \E p \in Declarations(material) :
                /\ Declared(material, p).binding = bs[i].binding
                /\ bs[i].descriptorCount = CountOf(Declared(material, p).type)
                /\ (bs[i].descriptorType = "COMBINED_IMAGE_SAMPLER")
                       = IsSamplerType(Declared(material, p).type)

C25_Witness ==
    /\ material.constructed
    /\ material.error = "none"
    /\ material.contract = "c1"
    /\ Len(material.stages) = 2
    /\ \E d \in Range(material.stages[1].descriptors) : d.set = 0 /\ d.binding = 3
    /\ \E d \in Range(material.stages[2].descriptors) : d.set = 2 /\ d.binding = 3
    /\ Len(material.per_object_layout.bindings) = 1

(***************************************************************************)
(* The claim about select_physical_device (SpecSelect)                     *)
(***************************************************************************)
HasAll(d, required_extensions) ==
    \A i \in DOMAIN required_extensions : required_extensions[i] \in d.extensions

\* C26: select_physical_device never returns a device that lacks a required
\* extension, and it fails with "no suitable Vulkan device present" when no
\* device has all the required extensions, a surface format, a present mode and
\* a queue family with graphics and present.
C26_SelectedDeviceHasRequiredExtensions ==
    call.op = "select_physical_device" =>
        /\ call.selection.threw = "none" =>
            HasAll(call.physical_devices[call.selection.physical_device],
                   call.required_extensions)
        /\ (\A n \in DOMAIN call.physical_devices :
                LET d == call.physical_devices[n] IN
                ~(/\ HasAll(d, call.required_extensions)
                  /\ d.surface_formats > 0
                  /\ d.present_modes > 0
                  /\ \E i \in DOMAIN d.queue_families :
                        d.queue_families[i].graphics /\ d.queue_families[i].present))
            => call.selection.threw = "no suitable Vulkan device present"

(***************************************************************************)
(* The claim about transform.h (SpecTransform)                             *)
(***************************************************************************)
Tested == call.op \in {"test_affine_transform", "test_rigid_transform"}
IsAffineMatrix(m) == \A j \in 1..4 : m[j][4] = (IF j = 4 THEN 1 ELSE 0)

\* C27 as stated: the transformed difference of two points is the difference
\* of the transformed points, and for a rigid or axis-permuting t and any
\* matrix m, transform_vector(transform_matrix(t, m), transform_vector(t, v))
\* is transform_vector(t, transform_vector(m, v)).
C27_VectorsAndAnyMatrix ==
    /\ Tested => call.vector = call.difference
    /\ call.op = "test_rigid_transform" =>
        call.by_transformed_matrix = call.transformed_after_matrix

\* C27: the transformed difference of two points is the difference of the
\* transformed points, and for a rigid or axis-permuting t and a matrix m
\* whose last row is 0,0,0,1 the transformed matrix maps the transformed
\* vector to the transform of the vector m gives.
C27_VectorsAndAffineMatrix ==
    /\ Tested => call.vector = call.difference
    /\ (call.op = "test_rigid_transform" /\ IsAffineMatrix(call.matrix)) =>
        call.by_transformed_matrix = call.transformed_after_matrix

C27_Witness ==
    /\ call.op = "test_rigid_transform"
    /\ call.t.kind = "float4x4"
    /\ call.t.m[4] = <<2, 5, 3, 1>>
    /\ call.matrix[4] = <<3, 0, -1, 1>>
    /\ call.a = <<1, 2, 3>>
    /\ call.b = <<4, -5, 2>>
    /\ call.vector = call.difference
    /\ call.by_transformed_matrix = call.transformed_after_matrix
    /\ call.by_transformed_matrix # call.vector

(***************************************************************************)
(* The claim about a reset that waits for ever (SpecPool)                  *)
(***************************************************************************)
\* C28: reset() returns only when the fence has been signaled since the reset
\* before it (the constructor creates it signaled), and resets it; once a reset
\* has returned, another reset cannot return until a submission is made with
\* the fence: the fence stays unsignaled and the wait does not end.
C28_ResetReturnsOnlyAfterSignal ==
    [][ /\ call'.op = "pool_reset" => (fence = "signaled" /\ fence' = "unsignaled")
        /\ (fence = "unsignaled" /\ ~gpu.busy) =>
            /\ ~ENABLED PoolReset
            /\ call'.op # "window_end" => (fence' = "unsignaled" /\ ~gpu'.busy)
      ]_vars

\* The first reset has returned without a submission before it; nothing has
\* been submitted since, and a second reset waits.
C28_Witness ==
    /\ call.op = "pool_reset"
    /\ gpu.frames = 0
    /\ fence = "unsignaled"
    /\ ~ENABLED PoolReset

(***************************************************************************)
(* The claim about the size of the staging buffer (SpecCtor)               *)
(***************************************************************************)
\* C29: every copy of the host into the staging buffer writes within its
\* 16 MiB, bytes 0..16 MiB - 1; a size above 16 MiB is rejected, not written.
C29_StagingWritesWithinCapacity ==
    call.op = "memcpy_staging" =>
        (call.first >= 0 /\ call.last < StagingSize)

(***************************************************************************)
(* The claim about replaying a draw list (SpecDraw)                        *)
(***************************************************************************)
\* C30: write_commands leaves the items, their order and the contract of the
\* list as they were, whether it records commands or throws; a second
\* write_commands with the same render pass and shared descriptor sets records
\* the same commands as the first.
C30_WriteCommandsLeavesListUnchanged ==
    [][ call'.op = "write_commands" =>
            /\ items' = items
            /\ contract' = contract
            /\ call'.replay => (cmd' = cmd /\ call'.error = call.error)
      ]_vars

\* A list of two items was replayed and recorded its commands again.
C30_Witness ==
    /\ call.op = "write_commands"
    /\ call.replay
    /\ call.error = "none"
    /\ Len(items) = 2
    /\ Len(IndexedDraws(cmd)) = 2

====
